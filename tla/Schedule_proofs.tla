--------------------------- MODULE Schedule_proofs ---------------------------
(***************************************************************************)
(* Proofs about Schedule, for every length of the day, catch-up limit and  *)
(* horizon, whatever slots and months the platforms are given.             *)
(***************************************************************************)
EXTENDS Schedule, WellFoundedInduction, TLAPS

Months == {"latest", "m1", "m2"}
Named == {"m1", "m2"}

Batches ==
    [jobs : SUBSET Instances, at : {"idle", "months", "start", "scan"}, months : SUBSET Months,
     done : SUBSET Named, month : Named \cup {NoMonth}]

Keys == [platform : Platforms, minute : 0 .. Horizon, month : Months \cup {NoMonth, "skipped"}]

ScheduleType ==
    /\ storage \in Storages /\ schedule \in Schedules
    /\ now \in 0 .. Horizon /\ previous \in NoTick .. now /\ edits \in Nat
    /\ due \subseteq Instances /\ caught \subseteq Instances /\ groups \subseteq Lanes
    /\ runners \in [Lanes -> Batches] /\ log \subseteq Keys
    /\ since \in NoTick .. previous /\ gap \in Nat

\* A key of the log is of instance i.
Of(k, i) == k.platform = i.platform /\ k.minute = i.minute

\* The batch b of lane l: its slots are of the lane and of past minutes; only the one whose turn it
\* is may have entries in the log lg, for months its turn is through with.
Orderly(l, b, lg) ==
    /\ \A i \in b.jobs : LaneOf(i.platform) = l /\ i.minute <= previous
    /\ b.at # "idle" => b.jobs # {}
    /\ b.at = "months" => storage = "postgres"
    /\ b.at \in {"start", "scan"} /\ storage = "postgres" => b.month \in b.done
    /\ \A k \in lg : \A i \in b.jobs :
          Of(k, i) => /\ b.at # "idle" /\ i = FirstJob(b.jobs)
                      /\ k.month \in b.done \/ (k.month = "latest" /\ "latest" \notin b.months)
                      /\ b.at \in {"start", "scan"} => k.month # b.month

\* A slot that is due is nowhere else yet.
DueInv ==
    \A i \in due : /\ i.minute <= previous /\ LaneOf(i.platform) \in groups
                   /\ \A l \in Lanes : i \notin runners[l].jobs
                   /\ \A k \in log : ~Of(k, i)

BatchInv ==
    /\ \A l \in Lanes : Orderly(l, runners[l], log)
    /\ \A k \in log : k.minute <= previous
    /\ ~twice

\* What the ticks so far have answered for: caught, or due in this tick.
CaughtInv ==
    /\ (since = NoTick) = (previous = NoTick)
    /\ since # NoTick /\ gap <= CatchUp /\ edits = 0 =>
          \A p \in Platforms : \A m \in since .. previous :
              m % Day \in schedule[p].times => [platform |-> p, minute |-> m] \in caught \cup due

ScheduleInv == ScheduleType /\ DueInv /\ BatchInv /\ CaughtInv

-----------------------------------------------------------------------------
(* Instances, and which comes first.                                       *)

\* Numbers that are there have a least one.
LEMMA LeastNat ==
    ASSUME NEW T, T \subseteq Nat, T # {}
    PROVE  \E x \in T : \A y \in T : x <= y
  <1> DEFINE R == OpToRel(<, Nat)
  <1>1. IsWellFoundedOn(R, Nat)
    BY NatLessThanWellFounded, Zenon
  <1>2. \A x \in Nat : \A y \in Nat : y < x => <<y, x>> \in R
    BY DEF OpToRel
  <1> HIDE DEF R
  <1>3. PICK x \in T : \A y \in T : ~ (<<y, x>> \in R)
    BY <1>1, WFMin, Zenon
  <1>4. \A y \in T : ~ (y < x)
    BY <1>2, <1>3
  <1>5. QED
    BY <1>4

\* An instance is its platform and its minute.
LEMMA SameInstance ==
    ASSUME NEW i \in Instances, NEW j \in Instances, i.platform = j.platform, i.minute = j.minute
    PROVE  i = j
  BY DEF Instances

LEMMA InstanceType ==
    ASSUME NEW i \in Instances
    PROVE  i.platform \in Platforms /\ i.minute \in 0 .. Horizon /\ i.minute \in Nat
  BY ScheduleAssumption DEF Instances

\* Some slot of a batch comes first.
LEMMA FirstOfJobs ==
    ASSUME NEW jobs \in SUBSET Instances, jobs # {} PROVE FirstJob(jobs) \in jobs
  <1> DEFINE M == {i.minute : i \in jobs}
  <1>1. \A i \in jobs : i.platform \in {"tiktok", "threads"} /\ i.minute \in Nat
    BY InstanceType DEF Platforms
  <1>2. PICK x \in M : \A y \in M : x <= y
    <2>1. M \subseteq Nat /\ M # {}
      BY <1>1
    <2>2. QED
      BY <2>1, LeastNat
  <1>3. PICK i \in jobs : i.minute = x
    BY <1>2
  <1>4. \A k \in jobs : i.minute <= k.minute
    BY <1>2, <1>3
  <1>5. \E j \in jobs : \A k \in jobs \ {j} : Precedes(j, k)
    <2>1. CASE \E j \in jobs : j.minute = i.minute /\ j.platform = "tiktok"
      <3>1. PICK j \in jobs : j.minute = i.minute /\ j.platform = "tiktok"
        BY <2>1
      <3>2. ASSUME NEW k \in jobs \ {j} PROVE Precedes(j, k)
        <4>1. k.minute = j.minute => k.platform = "threads"
          BY <1>1, <3>1, SameInstance
        <4>2. QED
          BY <1>1, <1>4, <3>1, <4>1 DEF Precedes
      <3>3. QED
        BY <3>2
    <2>2. CASE ~\E j \in jobs : j.minute = i.minute /\ j.platform = "tiktok"
      <3>1. ASSUME NEW k \in jobs \ {i} PROVE Precedes(i, k)
        <4>1. k.minute # i.minute
          BY <1>1, <2>2, SameInstance
        <4>2. QED
          BY <1>1, <1>4, <4>1 DEF Precedes
      <3>2. QED
        BY <3>1
    <2>3. QED
      BY <2>1, <2>2
  <1>6. QED
    BY <1>5 DEF FirstJob

\* Some month of a slot comes first.
LEMMA FirstOfMonths ==
    ASSUME NEW months \in SUBSET Months, months # {} PROVE FirstMonth(months) \in months
  <1>1. \E m \in months : \A n \in months \ {m} : Rank(m) < Rank(n)
    <2>1. CASE "latest" \in months
      BY <2>1 DEF Months, Rank
    <2>2. CASE "latest" \notin months /\ "m2" \in months
      BY <2>2 DEF Months, Rank
    <2>3. CASE "latest" \notin months /\ "m2" \notin months
      <3>1. \A n \in months : n = "m1"
        BY <2>3 DEF Months
      <3>2. "m1" \in months
        BY <3>1
      <3>3. QED
        BY <3>1, <3>2
    <2>4. QED
      BY <2>1, <2>2, <2>3
  <1>2. QED
    BY <1>1 DEF FirstMonth

-----------------------------------------------------------------------------
(* Ticks.                                                                  *)

\* A tick answers for minutes after the previous one, up to its own.
LEMMA MinutesBetween ==
    ASSUME NEW last \in NoTick .. Horizon, NEW t \in 0 .. Horizon, NEW m \in Minutes(last, t)
    PROVE  m \in 0 .. Horizon /\ last < m /\ m <= t
  BY ScheduleAssumption DEF Minutes, NoTick

\* A tick keeps the invariant.
LEMMA TickNext == ASSUME ScheduleInv, Tick PROVE ScheduleInv'
  <1>0. /\ groups = {} /\ due = {} /\ previous' = now
        /\ UNCHANGED <<storage, schedule, now, edits, runners, log, twice, caught>>
    BY DEF Tick, ScheduleInv, DueInv, clock
  <1>1. now \in 0 .. Horizon /\ previous \in NoTick .. Horizon /\ previous <= now /\ now \in Nat
    BY ScheduleAssumption DEF ScheduleInv, ScheduleType, NoTick
  <1>2. ASSUME NEW i \in due'
        PROVE  /\ i \in Instances /\ i.minute <= now /\ previous < i.minute /\ i.minute \in Nat
               /\ LaneOf(i.platform) \in groups'
    <2>1. i.platform \in Platforms /\ i.minute \in Minutes(previous, now)
          /\ i \in [platform : Platforms, minute : Minutes(previous, now)]
      BY DEF Tick, DueSlots
    <2>2. i.minute \in 0 .. Horizon /\ previous < i.minute /\ i.minute <= now
      BY <1>1, <2>1, MinutesBetween
    <2>3. i \in Instances
      BY <2>1, <2>2 DEF Instances
    <2>4. LaneOf(i.platform) \in groups'
      BY DEF Tick
    <2>5. QED
      BY <2>2, <2>3, <2>4, ScheduleAssumption
  <1>3. ScheduleType'
    <2>1. groups' \subseteq Lanes'
      <3>1. groups' = {LaneOf(i.platform) : i \in due'}
        BY DEF Tick
      <3>2. \A i \in due' : i.platform \in Platforms
        BY <1>2, InstanceType
      <3>3. Lanes' = Lanes
        BY <1>0 DEF Lanes, LaneOf
      <3>4. QED
        BY <3>1, <3>2, <3>3 DEF Lanes
    <2>2. since' \in NoTick .. previous' /\ gap' \in Nat
      BY <1>0, <1>1, ScheduleAssumption DEF Tick, ScheduleInv, ScheduleType, NoTick
    <2>3. due' \subseteq Instances
      BY <1>2
    <2>4. previous' \in NoTick .. now'
      BY <1>0, <1>1 DEF NoTick
    <2>5. Lanes' = Lanes /\ Batches' = Batches
      BY <1>0 DEF Lanes, LaneOf, Batches
    <2>6. QED
      BY <1>0, <2>1, <2>2, <2>3, <2>4, <2>5 DEF ScheduleInv, ScheduleType
  <1>4. DueInv'
    <2>1. ASSUME NEW i \in due', NEW l \in Lanes PROVE i \notin runners[l].jobs
      <3>1. \A j \in runners[l].jobs : j.minute <= previous
        BY DEF ScheduleInv, BatchInv, Orderly
      <3>2. QED
        BY <1>1, <1>2, <3>1
    <2>2. ASSUME NEW i \in due', NEW k \in log PROVE ~Of(k, i)
      <3>1. k.minute <= previous
        BY DEF ScheduleInv, BatchInv
      <3>2. QED
        BY <1>1, <1>2, <3>1 DEF Of
    <2>3. Lanes' = Lanes
      BY <1>0 DEF Lanes, LaneOf
    <2>4. \A i \in due' : LaneOf(i.platform)' = LaneOf(i.platform)
      BY <1>0 DEF LaneOf
    <2>5. QED
      BY <1>0, <1>2, <2>1, <2>2, <2>3 DEF DueInv, LaneOf
  <1>5. BatchInv'
    <2>1. ASSUME NEW l \in Lanes PROVE Orderly(l, runners[l], log)'
      <3>1. Orderly(l, runners[l], log)
        BY DEF ScheduleInv, BatchInv
      <3>2. runners[l].jobs \subseteq Instances
        BY DEF ScheduleInv, ScheduleType, Batches
      <3>3. \A i \in runners[l].jobs : i.minute <= now
        BY <1>1, <3>1, <3>2, InstanceType DEF Orderly, NoTick
      <3>4. QED
        BY <1>0, <3>1, <3>3 DEF Orderly, LaneOf
    <2>2. \A k \in log : k.minute <= now
      <3>1. \A k \in log : k.minute \in Nat /\ k.minute <= previous
        BY ScheduleAssumption DEF ScheduleInv, ScheduleType, BatchInv, Keys
      <3>2. QED
        BY <1>1, <3>1
    <2>3. Lanes' = Lanes
      BY <1>0 DEF Lanes, LaneOf
    <2>4. QED
      BY <1>0, <2>1, <2>2, <2>3 DEF ScheduleInv, BatchInv
  <1>6. CaughtInv'
    <2>1. (since' = NoTick) = (previous' = NoTick)
      BY <1>0, <1>1 DEF Tick, ScheduleInv, CaughtInv, NoTick
    <2>2. ASSUME gap' <= CatchUp, edits' = 0, NEW p \in Platforms, NEW m \in since' .. previous',
                 m % Day \in schedule'[p].times
          PROVE  [platform |-> p, minute |-> m] \in caught' \cup due'
      <3>1. CASE m \in Minutes(previous, now)
        <4>1. [platform |-> p, minute |-> m] \in [platform : Platforms, minute : Minutes(previous, now)]
          BY <3>1
        <4>2. QED
          BY <1>0, <2>2, <4>1 DEF Tick, DueSlots
      <3>2. CASE m \notin Minutes(previous, now)
        <4>1. since # NoTick /\ previous # NoTick /\ m \in since .. now
          BY <1>0, <1>1, <2>2, <3>2 DEF Tick, ScheduleInv, CaughtInv, Minutes
        <4>2. gap \in Nat /\ gap <= CatchUp /\ now - previous <= CatchUp
          BY <1>1, <2>2, <4>1, ScheduleAssumption DEF Tick, ScheduleInv, ScheduleType, NoTick
        <4>3. m <= previous
          BY <1>1, <3>2, <4>1, <4>2, ScheduleAssumption DEF Minutes, NoTick, ScheduleInv, ScheduleType
        <4>4. m \in since .. previous
          BY <1>1, <4>1, <4>3 DEF NoTick, ScheduleInv, ScheduleType
        <4>5. QED
          BY <1>0, <2>2, <4>1, <4>2, <4>4 DEF ScheduleInv, CaughtInv
      <3>3. QED
        BY <3>1, <3>2
    <2>3. QED
      BY <2>1, <2>2 DEF CaughtInv
  <1>7. QED
    BY <1>3, <1>4, <1>5, <1>6 DEF ScheduleInv

-----------------------------------------------------------------------------
(* Batches.                                                                *)

\* A batch that has not begun its first slot.
LEMMA IdleBatch ==
    ASSUME NEW J \in SUBSET Instances, NEW b, b = [Idle EXCEPT !.jobs = J]
    PROVE  b \in Batches /\ b.jobs = J /\ b.at = "idle"
  BY DEF Idle, Batches

\* The due slots of a lane are given to a new batch, or skipped, all of them.
LEMMA TickGroupNext == ASSUME ScheduleInv, NEW l \in Lanes, TickGroup(l) PROVE ScheduleInv'
  <1> DEFINE J == JobsOf(l)
  <1>0. /\ l \in groups /\ groups' = groups \ {l} /\ due' = due \ J /\ caught' = caught \cup J
        /\ UNCHANGED <<storage, schedule, now, edits, previous, since, gap>>
        /\ Lanes' = Lanes /\ Batches' = Batches
        /\ \A p : LaneOf(p)' = LaneOf(p)
    BY DEF TickGroup, clock, Lanes, LaneOf, Batches
  <1>1. J \subseteq due /\ J \in SUBSET Instances /\ due \subseteq Instances
        /\ \A i \in due \ J : LaneOf(i.platform) # l
    BY DEF JobsOf, ScheduleInv, ScheduleType
  <1>2. ASSUME NEW i \in due, NEW j \in Instances, NEW k, Of(k, j), Of(k, i) PROVE j = i
    <2>1. j.platform = i.platform /\ j.minute = i.minute
      BY <1>2 DEF Of
    <2>2. QED
      BY <1>1, <2>1, SameInstance
  <1>3. CaughtInv'
    BY <1>0, <1>1 DEF ScheduleInv, CaughtInv
  <1>4. CASE BatchRunning(l)
    <2> DEFINE K == {Key(i, "skipped") : i \in J}
    <2>1. log' = log \cup K /\ twice' = (twice \/ K \cap log # {}) /\ runners' = runners
      BY <1>4 DEF TickGroup, Record
    <2>2. ASSUME NEW k \in K
          PROVE  /\ k \in Keys /\ k \notin log /\ k.minute <= previous
                 /\ \E i \in J : Of(k, i)
      <3>1. PICK i \in J : k = Key(i, "skipped")
        OBVIOUS
      <3>2. Of(k, i) /\ k \in Keys
        BY <1>1, <3>1, InstanceType DEF Of, Key, Keys
      <3>3. k \notin log /\ i.minute <= previous
        BY <1>1, <3>2 DEF ScheduleInv, DueInv
      <3>4. QED
        BY <3>2, <3>3 DEF Of
    <2> HIDE DEF K
    <2>3. ScheduleType'
      BY <1>0, <1>1, <2>1, <2>2 DEF ScheduleInv, ScheduleType
    <2>4. ASSUME NEW i \in due \ J, NEW k \in K PROVE ~Of(k, i)
      <3>1. PICK j \in J : Of(k, j)
        BY <2>2
      <3>2. QED
        BY <1>1, <1>2, <2>4, <3>1
    <2>5. DueInv'
      BY <1>0, <1>1, <2>1, <2>4 DEF ScheduleInv, DueInv
    <2>6. ASSUME NEW m \in Lanes, NEW i \in runners[m].jobs, NEW k \in K PROVE ~Of(k, i)
      <3>1. PICK j \in J : Of(k, j)
        BY <2>2
      <3>2. i \in Instances
        BY DEF ScheduleInv, ScheduleType, Batches
      <3>3. i # j
        BY <1>1, <3>1 DEF ScheduleInv, DueInv
      <3>4. QED
        BY <1>1, <1>2, <3>1, <3>2, <3>3
    <2>7. ASSUME NEW m \in Lanes PROVE Orderly(m, runners[m], log)'
      <3>1. Orderly(m, runners[m], log)
        BY DEF ScheduleInv, BatchInv
      <3>2. QED
        BY <1>0, <2>1, <2>6, <3>1 DEF Orderly
    <2>8. BatchInv'
      BY <1>0, <2>1, <2>2, <2>7 DEF ScheduleInv, BatchInv
    <2>9. QED
      BY <1>3, <2>3, <2>5, <2>8 DEF ScheduleInv
  <1>5. CASE ~BatchRunning(l)
    <2> DEFINE b == [Idle EXCEPT !.jobs = J]
    <2>1. runners' = [runners EXCEPT ![l] = b] /\ log' = log /\ twice' = twice
      BY <1>5 DEF TickGroup
    <2>2. b \in Batches /\ b.jobs = J /\ b.at = "idle"
      BY <1>1, IdleBatch
    <2> HIDE DEF b
    <2>3. \A m \in Lanes : runners'[m] = IF m = l THEN b ELSE runners[m]
      BY <2>1 DEF ScheduleInv, ScheduleType
    <2>4. ScheduleType'
      BY <1>0, <1>1, <2>1, <2>2 DEF ScheduleInv, ScheduleType
    <2>5. DueInv'
      BY <1>0, <1>1, <2>1, <2>2, <2>3 DEF ScheduleInv, DueInv
    <2>6. ASSUME NEW m \in Lanes PROVE Orderly(m, runners[m], log)'
      <3>1. Orderly(m, runners[m], log)
        BY DEF ScheduleInv, BatchInv
      <3>2. CASE m # l
        BY <1>0, <2>1, <2>3, <3>1, <3>2 DEF Orderly
      <3>3. CASE m = l
        <4>1. \A i \in J : LaneOf(i.platform) = l /\ i.minute <= previous /\ \A k \in log : ~Of(k, i)
          BY <1>1 DEF JobsOf, ScheduleInv, DueInv
        <4>2. QED
          BY <1>0, <2>1, <2>2, <2>3, <3>3, <4>1 DEF Orderly
      <3>4. QED
        BY <3>2, <3>3
    <2>7. BatchInv'
      BY <1>0, <2>1, <2>6 DEF ScheduleInv, BatchInv
    <2>8. QED
      BY <1>3, <2>4, <2>5, <2>7 DEF ScheduleInv
  <1>6. QED
    BY <1>4, <1>5

\* A batch goes on: it gives up no slot to another and records only the one whose turn it is.
LEMMA BatchNext ==
    ASSUME ScheduleInv, NEW l \in Lanes, JobOnly, NEW b \in Batches, Batch(l, b),
           runners[l].jobs # {}, b.jobs \subseteq runners[l].jobs,
           NEW K \in SUBSET Keys, \A k \in K : Of(k, Job(l)), log' = log \cup K, ~twice',
           Orderly(l, b, log \cup K)
    PROVE  ScheduleInv'
  <1>0. /\ UNCHANGED <<storage, schedule, now, edits, previous, groups, due, caught, since, gap>>
        /\ Lanes' = Lanes /\ Batches' = Batches
        /\ \A p : LaneOf(p)' = LaneOf(p)
    BY DEF JobOnly, clock, tick, history, Lanes, LaneOf, Batches
  <1>1. \A m \in Lanes : /\ runners'[m] = IF m = l THEN b ELSE runners[m]
                         /\ runners[m].jobs \subseteq Instances
    BY DEF Batch, ScheduleInv, ScheduleType, Batches
  <1>2. Job(l) \in runners[l].jobs /\ Job(l) \in Instances
    BY <1>1, FirstOfJobs DEF Job
  <1>3. LaneOf(Job(l).platform) = l /\ Job(l).minute <= previous /\ Job(l) \notin due
    BY <1>2 DEF ScheduleInv, BatchInv, Orderly, DueInv
  <1>4. ASSUME NEW i \in Instances, NEW k \in K, Of(k, i) PROVE i = Job(l)
    <2>1. i.platform = Job(l).platform /\ i.minute = Job(l).minute
      BY <1>4 DEF Of
    <2>2. QED
      BY <1>2, <2>1, SameInstance
  <1>5. ScheduleType'
    <2>1. runners' \in [Lanes -> Batches]
      BY DEF Batch, ScheduleInv, ScheduleType
    <2>2. QED
      BY <1>0, <2>1 DEF ScheduleInv, ScheduleType
  <1>6. DueInv'
    <2>1. ASSUME NEW i \in due
          PROVE  /\ \A m \in Lanes : i \notin runners'[m].jobs
                 /\ \A k \in log' : ~Of(k, i)
      <3>1. \A m \in Lanes : i \notin runners[m].jobs
        BY DEF ScheduleInv, DueInv
      <3>2. i \in Instances /\ i # Job(l)
        BY <1>3 DEF ScheduleInv, ScheduleType
      <3>3. QED
        BY <1>1, <1>4, <3>1, <3>2 DEF ScheduleInv, DueInv
    <2>2. QED
      BY <1>0, <2>1 DEF ScheduleInv, DueInv
  <1>7. BatchInv'
    <2>1. ASSUME NEW m \in Lanes PROVE Orderly(m, runners[m], log)'
      <3>1. Orderly(m, runners[m], log)
        BY DEF ScheduleInv, BatchInv
      <3>2. CASE m # l
        <4>1. \A i \in runners[m].jobs : \A k \in K : ~Of(k, i)
          BY <1>1, <1>3, <1>4, <3>1, <3>2 DEF Orderly
        <4>2. QED
          BY <1>0, <1>1, <3>1, <3>2, <4>1 DEF Orderly
      <3>3. CASE m = l
        BY <1>0, <1>1, <3>3 DEF Orderly
      <3>4. QED
        BY <3>2, <3>3
    <2>2. \A k \in log' : k.minute <= previous
      BY <1>3 DEF ScheduleInv, BatchInv, Of
    <2>3. QED
      BY <1>0, <2>1, <2>2 DEF BatchInv
  <1>8. CaughtInv'
    BY <1>0 DEF ScheduleInv, CaughtInv
  <1>9. QED
    BY <1>5, <1>6, <1>7, <1>8 DEF ScheduleInv

\* A month that has no entry yet is recorded: no entry is there twice.
LEMMA RecordNew ==
    ASSUME ScheduleInv, NEW j \in Instances, NEW month \in Months \cup {NoMonth},
           NEW A, A = {Key(j, month)}, Record(A), \A k \in log : Of(k, j) => k.month # month
    PROVE  /\ A \in SUBSET Keys /\ \A k \in A : Of(k, j) /\ k.month = month
           /\ log' = log \cup A /\ ~twice'
  <1>1. Key(j, month) \in Keys /\ Of(Key(j, month), j) /\ Key(j, month).month = month
    BY InstanceType DEF Key, Keys, Of
  <1>2. Key(j, month) \notin log
    BY <1>1
  <1>3. A \in SUBSET Keys /\ \A k \in A : Of(k, j) /\ k.month = month
    BY <1>1
  <1>4. A \cap log = {}
    BY <1>2
  <1>5. QED
    BY <1>3, <1>4 DEF Record, ScheduleInv, BatchInv

\* What is known of the batch of a lane that has slots.
LEMMA BatchFacts ==
    ASSUME ScheduleInv, NEW l \in Lanes, runners[l].jobs # {}
    PROVE  /\ runners[l] \in Batches /\ runners[l].jobs \in SUBSET Instances
           /\ runners[l].months \in SUBSET Months /\ runners[l].done \in SUBSET Named
           /\ runners[l].month \in Named \cup {NoMonth}
           /\ Job(l) \in runners[l].jobs /\ Job(l) \in Instances
           /\ Orderly(l, runners[l], log)
           /\ \A k \in log : Of(k, Job(l)) =>
                 /\ runners[l].at # "idle"
                 /\ \/ k.month \in runners[l].done
                    \/ k.month = "latest" /\ "latest" \notin runners[l].months
                 /\ runners[l].at \in {"start", "scan"} => k.month # runners[l].month
  <1>1. /\ runners[l] \in Batches /\ runners[l].jobs \in SUBSET Instances
        /\ runners[l].months \in SUBSET Months /\ runners[l].done \in SUBSET Named
        /\ runners[l].month \in Named \cup {NoMonth}
    BY DEF ScheduleInv, ScheduleType, Batches
  <1>2. Job(l) \in runners[l].jobs /\ Job(l) \in Instances
    BY <1>1, FirstOfJobs DEF Job
  <1>3. Orderly(l, runners[l], log)
    BY DEF ScheduleInv, BatchInv
  <1>4. QED
    BY <1>1, <1>2, <1>3 DEF Orderly

\* The next slot: none of the slots left has an entry.
LEMMA NextJobOrderly ==
    ASSUME ScheduleInv, NEW l \in Lanes, runners[l].jobs # {}, NEW K, \A k \in K : Of(k, Job(l))
    PROVE  /\ NextJob(l) \in Batches /\ NextJob(l).jobs \subseteq runners[l].jobs
           /\ Orderly(l, NextJob(l), log \cup K)
  <1> DEFINE J == runners[l].jobs \ {Job(l)}
             b == NextJob(l)
  <1>1. Job(l) \in Instances /\ J \in SUBSET Instances /\ Orderly(l, runners[l], log)
    BY BatchFacts
  <1>2. b = [Idle EXCEPT !.jobs = J]
    BY DEF NextJob
  <1>3. b \in Batches /\ b.jobs = J /\ b.at = "idle"
    <2> HIDE DEF J, b
    <2> QED
      BY <1>1, <1>2, IdleBatch
  <1>4. ASSUME NEW k \in log \cup K, NEW i \in J PROVE ~Of(k, i)
    <2>1. CASE k \in log
      BY <1>1, <2>1 DEF Orderly, Job
    <2>2. CASE k \in K
      BY <1>1, <2>2, SameInstance DEF Of
    <2>3. QED
      BY <2>1, <2>2
  <1>5. QED
    <2> HIDE DEF b
    <2>1. Orderly(l, b, log \cup K)
      BY <1>1, <1>3, <1>4 DEF Orderly
    <2>2. QED
      BY <1>3, <2>1 DEF b

\* The turn of a slot begins.
LEMMA JobBeginNext == ASSUME ScheduleInv, NEW l \in Lanes, JobBegin(l) PROVE ScheduleInv'
  <1>1. runners[l].at = "idle" /\ runners[l].jobs # {} /\ JobOnly /\ UNCHANGED <<log, twice>>
    BY DEF JobBegin
  <1>2. Job(l) \in Instances /\ Orderly(l, runners[l], log) /\ runners[l] \in Batches
    BY <1>1, BatchFacts
  <1>3. PICK b : /\ Batch(l, b)
                 /\ \/ /\ storage = "postgres"
                       /\ \E months \in SUBSET Months :
                             b = [runners[l] EXCEPT !.at = "months", !.months = months]
                    \/ storage # "postgres" /\ b = [runners[l] EXCEPT !.at = "start"]
    <2>1. Job(l).platform \in Platforms
      BY <1>2, InstanceType
    <2>2. schedule[Job(l).platform].months \in SUBSET Months /\ {"latest"} \in SUBSET Months
      BY <2>1 DEF ScheduleInv, ScheduleType, Schedules, Valid, Months
    <2>3. QED
      BY <2>2 DEF JobBegin
  <1>4. b \in Batches /\ b.jobs = runners[l].jobs /\ b.at \in {"months", "start"}
        /\ (b.at = "months" => storage = "postgres") /\ (b.at = "start" => storage # "postgres")
    BY <1>2, <1>3 DEF Batches
  <1>5. Orderly(l, b, log)
    BY <1>1, <1>2, <1>4 DEF Orderly
  <1>6. PICK K : K = {}
    OBVIOUS
  <1>7. K \in SUBSET Keys /\ (\A k \in K : Of(k, Job(l))) /\ log' = log \cup K /\ log \cup K = log
        /\ ~twice'
    BY <1>1, <1>6 DEF ScheduleInv, BatchInv
  <1>8. QED
    BY <1>1, <1>3, <1>4, <1>5, <1>7, BatchNext

\* The next month of a slot: scanned once, also when it is the newest and asked for by name.
LEMMA MonthBeginNext == ASSUME ScheduleInv, NEW l \in Lanes, MonthBegin(l) PROVE ScheduleInv'
  <1>1. runners[l].at = "months" /\ JobOnly
    BY DEF MonthBegin
  <1>2. runners[l].jobs # {} /\ storage = "postgres"
    BY <1>1 DEF ScheduleInv, BatchInv, Orderly
  <1>3. /\ Job(l) \in Instances /\ Orderly(l, runners[l], log) /\ runners[l] \in Batches
        /\ runners[l].months \in SUBSET Months /\ runners[l].done \in SUBSET Named
        /\ \A k \in log : Of(k, Job(l)) =>
              \/ k.month \in runners[l].done
              \/ k.month = "latest" /\ "latest" \notin runners[l].months
    BY <1>2, BatchFacts
  <1>4. PICK K : K = {}
    OBVIOUS
  <1>5. K \in SUBSET Keys /\ (\A k \in K : Of(k, Job(l))) /\ log \cup K = log
    BY <1>4
  <1>6. ~twice
    BY DEF ScheduleInv, BatchInv
  <1>7. CASE runners[l].months = {}
    <2>1. Batch(l, NextJob(l)) /\ log' = log \cup K /\ ~twice'
      BY <1>5, <1>6, <1>7 DEF MonthBegin
    <2>2. /\ NextJob(l) \in Batches /\ NextJob(l).jobs \subseteq runners[l].jobs
          /\ Orderly(l, NextJob(l), log \cup K)
      BY <1>2, <1>5, NextJobOrderly
    <2>3. QED
      BY <1>1, <1>2, <1>5, <2>1, <2>2, BatchNext
  <1>8. CASE runners[l].months # {}
    <2> DEFINE first == FirstMonth(runners[l].months)
               month == IF first = "latest" THEN Newest ELSE first
               left == runners[l].months \ {first}
               rest == [runners[l] EXCEPT !.months = left]
    <2>1. first \in runners[l].months /\ first \in Months /\ month \in Named /\ left \in SUBSET Months
      BY <1>3, <1>8, FirstOfMonths DEF Months, Named, Newest
    <2>2. /\ rest \in Batches /\ rest.jobs = runners[l].jobs /\ rest.at = "months"
          /\ rest.months = left /\ rest.done = runners[l].done
      <3> HIDE DEF left
      <3> QED
        BY <1>1, <1>3, <2>1 DEF Batches
    <2>3. Orderly(l, rest, log)
      <3> HIDE DEF rest
      <3> QED
        BY <1>1, <1>2, <1>3, <2>2 DEF Orderly
    <2>4. CASE Seen(month, runners[l].done) /\ Batch(l, rest) /\ UNCHANGED <<log, twice>>
      <3>1. log' = log \cup K /\ ~twice'
        BY <1>5, <1>6, <2>4
      <3> HIDE DEF rest
      <3>2. QED
        BY <1>1, <1>2, <1>5, <2>2, <2>3, <2>4, <3>1, BatchNext
    <2>5. CASE /\ ~Seen(month, runners[l].done) /\ UNCHANGED <<log, twice>>
               /\ Batch(l, [rest EXCEPT !.at = "start", !.month = month, !.done = @ \cup {month}])
      <3> DEFINE b == [rest EXCEPT !.at = "start", !.month = month, !.done = @ \cup {month}]
      <3>1. /\ b \in Batches /\ b.jobs = runners[l].jobs /\ b.at = "start" /\ b.months = left
            /\ b.done = runners[l].done \cup {month} /\ b.month = month
        <4> HIDE DEF rest, month, left
        <4> QED
          BY <2>1, <2>2 DEF Batches
      <3>2. month \notin runners[l].done /\ month # "latest"
        <4> HIDE DEF month
        <4> QED
          BY <2>1, <2>5 DEF Seen, Named
      <3>3. Batch(l, b) /\ log' = log \cup K /\ ~twice'
        BY <1>5, <1>6, <2>5
      <3> HIDE DEF b, month, left
      <3>4. ASSUME NEW k \in log, NEW i \in runners[l].jobs, Of(k, i)
            PROVE  /\ i = FirstJob(runners[l].jobs) /\ k.month # month
                   /\ \/ k.month \in b.done
                      \/ k.month = "latest" /\ "latest" \notin b.months
        <4>1. /\ i = FirstJob(runners[l].jobs)
              /\ \/ k.month \in runners[l].done
                 \/ k.month = "latest" /\ "latest" \notin runners[l].months
          BY <1>3, <3>4 DEF Orderly
        <4>2. QED
          BY <3>1, <3>2, <4>1 DEF left
      <3>5. Orderly(l, b, log)
        BY <1>2, <1>3, <3>1, <3>4 DEF Orderly
      <3>6. QED
        BY <1>1, <1>2, <1>5, <3>1, <3>3, <3>5, BatchNext
    <2>6. CASE first = "latest" /\ Batch(l, rest) /\ Record({Key(Job(l), "latest")})
      <3> PICK A : A = {Key(Job(l), "latest")}
        OBVIOUS
      <3>1. \A k \in log : Of(k, Job(l)) => k.month # "latest"
        BY <1>3, <2>1, <2>6 DEF Named
      <3>2. /\ A \in SUBSET Keys /\ (\A k \in A : Of(k, Job(l)) /\ k.month = "latest")
            /\ log' = log \cup A /\ ~twice'
        <4> PICK j : j = Job(l)
          OBVIOUS
        <4> PICK m : m = "latest"
          OBVIOUS
        <4>1. /\ j \in Instances /\ m \in Months \cup {NoMonth} /\ A = {Key(j, m)} /\ Record(A)
              /\ \A k \in log : Of(k, j) => k.month # m
          BY <1>3, <2>6, <3>1 DEF Months
        <4>2. QED
          BY <4>1, RecordNew
      <3>3. ASSUME NEW k \in A, NEW i \in runners[l].jobs, Of(k, i) PROVE i = FirstJob(runners[l].jobs)
        <4>1. i \in Instances /\ Of(k, Job(l))
          BY <1>2, <3>2, BatchFacts
        <4>2. QED
          BY <1>3, <3>3, <4>1, SameInstance DEF Of, Job
      <3>4. "latest" \notin left
        BY <2>6
      <3>5. Orderly(l, rest, log \cup A)
        <4> HIDE DEF rest, left
        <4> QED
          BY <2>2, <2>3, <3>2, <3>3, <3>4 DEF Orderly
      <3> HIDE DEF rest
      <3>6. QED
        BY <1>1, <1>2, <2>2, <2>6, <3>2, <3>5, BatchNext
    <2>7. QED
      BY <1>8, <2>4, <2>5, <2>6 DEF MonthBegin
  <1>9. QED
    BY <1>7, <1>8

\* The result of a scan, or why there is none, is recorded once, and the batch goes on.
LEMMA RecordedNext ==
    ASSUME ScheduleInv, NEW l \in Lanes, runners[l].at \in {"start", "scan"}, JobOnly,
           Batch(l, NextMonth(l)), Record({Key(Job(l), runners[l].month)})
    PROVE  ScheduleInv'
  <1>1. runners[l].jobs # {} /\ (storage = "postgres" => runners[l].month \in runners[l].done)
    BY DEF ScheduleInv, BatchInv, Orderly
  <1>2. /\ Job(l) \in Instances /\ Orderly(l, runners[l], log) /\ runners[l] \in Batches
        /\ runners[l].month \in Named \cup {NoMonth}
        /\ \A k \in log : Of(k, Job(l)) => k.month # runners[l].month
    BY <1>1, BatchFacts
  <1> PICK A : A = {Key(Job(l), runners[l].month)}
    OBVIOUS
  <1>3. /\ A \in SUBSET Keys /\ (\A k \in A : Of(k, Job(l)) /\ k.month = runners[l].month)
        /\ log' = log \cup A /\ ~twice'
    <2> PICK j : j = Job(l)
      OBVIOUS
    <2> PICK m : m = runners[l].month
      OBVIOUS
    <2>1. /\ j \in Instances /\ m \in Months \cup {NoMonth} /\ A = {Key(j, m)} /\ Record(A)
          /\ \A k \in log : Of(k, j) => k.month # m
      BY <1>2 DEF Months, Named
    <2>2. QED
      BY <2>1, RecordNew
  <1>4. CASE storage = "postgres"
    <2> DEFINE b == [runners[l] EXCEPT !.at = "months"]
    <2>1. /\ b \in Batches /\ b.jobs = runners[l].jobs /\ b.at = "months"
          /\ b.months = runners[l].months /\ b.done = runners[l].done
      BY <1>2 DEF Batches
    <2>2. Batch(l, b)
      BY <1>4 DEF NextMonth
    <2>3. ASSUME NEW k \in A, NEW i \in runners[l].jobs, Of(k, i) PROVE i = FirstJob(runners[l].jobs)
      <3>1. i \in Instances /\ Of(k, Job(l))
        BY <1>1, <1>3, BatchFacts
      <3>2. QED
        BY <1>2, <2>3, <3>1, SameInstance DEF Of, Job
    <2> HIDE DEF b
    <2>4. Orderly(l, b, log \cup A)
      BY <1>1, <1>2, <1>3, <1>4, <2>1, <2>3 DEF Orderly
    <2>5. QED
      BY <1>1, <1>3, <2>1, <2>2, <2>4, BatchNext
  <1>5. CASE storage # "postgres"
    <2>1. Batch(l, NextJob(l))
      BY <1>5 DEF NextMonth
    <2>2. /\ NextJob(l) \in Batches /\ NextJob(l).jobs \subseteq runners[l].jobs
          /\ Orderly(l, NextJob(l), log \cup A)
      BY <1>1, <1>3, NextJobOrderly
    <2>3. QED
      BY <1>1, <1>3, <2>1, <2>2, BatchNext
  <1>6. QED
    BY <1>4, <1>5

LEMMA JobStartNext == ASSUME ScheduleInv, NEW l \in Lanes, JobStart(l) PROVE ScheduleInv'
  <1>1. runners[l].at = "start" /\ JobOnly
    BY DEF JobStart
  <1>2. CASE Batch(l, NextMonth(l)) /\ Record({Key(Job(l), runners[l].month)})
    BY <1>1, <1>2, RecordedNext
  <1>3. CASE Batch(l, [runners[l] EXCEPT !.at = "scan"]) /\ UNCHANGED <<log, twice>>
    <2> DEFINE b == [runners[l] EXCEPT !.at = "scan"]
    <2>1. runners[l].jobs # {}
      BY <1>1 DEF ScheduleInv, BatchInv, Orderly
    <2>2. Orderly(l, runners[l], log) /\ runners[l] \in Batches
      BY <2>1, BatchFacts
    <2>3. /\ b \in Batches /\ b.jobs = runners[l].jobs /\ b.at = "scan"
          /\ b.months = runners[l].months /\ b.done = runners[l].done /\ b.month = runners[l].month
      BY <2>2 DEF Batches
    <2>4. Batch(l, b)
      BY <1>3
    <2> HIDE DEF b
    <2>5. Orderly(l, b, log)
      BY <1>1, <2>2, <2>3 DEF Orderly
    <2>6. PICK K : K = {}
      OBVIOUS
    <2>7. K \in SUBSET Keys /\ (\A k \in K : Of(k, Job(l))) /\ log' = log \cup K /\ log \cup K = log
          /\ ~twice'
      BY <1>3, <2>6 DEF ScheduleInv, BatchInv
    <2>8. QED
      BY <1>1, <2>1, <2>3, <2>4, <2>5, <2>7, BatchNext
  <1>4. QED
    BY <1>2, <1>3 DEF JobStart

-----------------------------------------------------------------------------
(* The schedule, the clock and the server.                                 *)

LEMMA OutsideNext == ASSUME ScheduleInv, Edit \/ Advance \/ Restart PROVE ScheduleInv'
  <1>0. Lanes' = Lanes /\ Batches' = Batches /\ storage' = storage /\ \A p : LaneOf(p)' = LaneOf(p)
    BY DEF Edit, Advance, Restart, tick, Lanes, LaneOf, Batches
  <1>1. CASE Edit \/ Advance
    <2>1. /\ UNCHANGED <<previous, groups, due, runners, log, twice, caught, since, gap>>
          /\ schedule' \in Schedules /\ edits' \in Nat /\ now' \in 0 .. Horizon
          /\ previous \in NoTick .. now'
          /\ edits' = 0 => edits = 0 /\ schedule' = schedule
      BY <1>1, ScheduleAssumption
         DEF Edit, Advance, tick, history, ScheduleInv, ScheduleType, NoTick
    <2>2. ScheduleType'
      BY <1>0, <2>1 DEF ScheduleInv, ScheduleType
    <2>3. DueInv'
      BY <1>0, <2>1 DEF ScheduleInv, DueInv
    <2>4. ASSUME NEW l \in Lanes PROVE Orderly(l, runners[l], log)'
      <3>1. Orderly(l, runners[l], log)
        BY DEF ScheduleInv, BatchInv
      <3>2. QED
        BY <1>0, <2>1, <3>1 DEF Orderly
    <2>5. BatchInv'
      BY <1>0, <2>1, <2>4 DEF ScheduleInv, BatchInv
    <2>6. CaughtInv'
      BY <2>1 DEF ScheduleInv, CaughtInv
    <2>7. QED
      BY <2>2, <2>3, <2>5, <2>6 DEF ScheduleInv
  <1>2. CASE Restart
    <2>1. /\ previous' = NoTick /\ groups' = {} /\ due' = {} /\ caught' = {} /\ since' = NoTick
          /\ gap' = 0 /\ runners' = [l \in Lanes |-> Idle] /\ log' = {}
          /\ UNCHANGED <<schedule, now, edits, twice>>
      BY <1>2 DEF Restart
    <2>2. Idle \in Batches /\ Idle.jobs = {} /\ Idle.at = "idle"
      BY DEF Idle, Batches
    <2>3. ScheduleType'
      BY <1>0, <2>1, <2>2, ScheduleAssumption DEF ScheduleInv, ScheduleType, NoTick
    <2>4. DueInv' /\ CaughtInv'
      BY <2>1 DEF DueInv, CaughtInv
    <2>5. ASSUME NEW l \in Lanes PROVE Orderly(l, runners[l], log)'
      <3>1. runners'[l] = Idle /\ log' = {}
        BY <2>1
      <3>2. QED
        BY <2>2, <3>1 DEF Orderly
    <2>6. BatchInv'
      BY <1>0, <2>1, <2>5 DEF ScheduleInv, BatchInv
    <2>7. QED
      BY <2>3, <2>4, <2>6 DEF ScheduleInv
  <1>3. QED
    BY <1>1, <1>2

LEMMA ScheduleStart == Init => ScheduleInv
  <1> SUFFICES ASSUME Init PROVE ScheduleInv
    OBVIOUS
  <1>1. Idle \in Batches /\ Idle.jobs = {} /\ Idle.at = "idle"
    BY DEF Idle, Batches
  <1>2. ScheduleType
    BY <1>1, ScheduleAssumption DEF Init, Start, ScheduleType, NoTick
  <1>3. DueInv /\ CaughtInv
    BY DEF Init, Start, DueInv, CaughtInv
  <1>4. BatchInv
    BY <1>1 DEF Init, BatchInv, Orderly
  <1>5. QED
    BY <1>2, <1>3, <1>4 DEF ScheduleInv

LEMMA ScheduleNext == ScheduleInv /\ [Next]_vars => ScheduleInv'
  <1> SUFFICES ASSUME ScheduleInv, [Next]_vars PROVE ScheduleInv'
    OBVIOUS
  <1>1. CASE UNCHANGED vars
    <2>1. /\ UNCHANGED <<storage, schedule, now, edits, previous, groups, due, runners, log, twice,
                         caught, since, gap>>
          /\ Lanes' = Lanes /\ Batches' = Batches /\ \A p : LaneOf(p)' = LaneOf(p)
      BY <1>1 DEF vars, clock, tick, history, Lanes, LaneOf, Batches
    <2>2. ScheduleType' /\ DueInv' /\ CaughtInv'
      BY <2>1 DEF ScheduleInv, ScheduleType, DueInv, CaughtInv
    <2>3. BatchInv'
      BY <2>1 DEF ScheduleInv, BatchInv, Orderly
    <2>4. QED
      BY <2>2, <2>3 DEF ScheduleInv
  <1>2. CASE Tick
    BY <1>2, TickNext
  <1>3. CASE \E l \in Lanes : TickGroup(l)
    BY <1>3, TickGroupNext
  <1>4. CASE \E l \in Lanes : JobStep(l)
    <2>1. PICK l \in Lanes : JobStep(l)
      BY <1>4
    <2>2. CASE JobScanned(l)
      BY <2>2, RecordedNext DEF JobScanned
    <2>3. QED
      BY <2>1, <2>2, JobBeginNext, MonthBeginNext, JobStartNext DEF JobStep
  <1>5. CASE Edit \/ Advance \/ Restart
    BY <1>5, OutsideNext
  <1>6. QED
    BY <1>1, <1>2, <1>3, <1>4, <1>5 DEF Next

\* No slot is run or skipped twice for one minute and month, and while ticks come at most the
\* catch-up limit apart none is passed over, however long the batches take.
THEOREM MinutesStay == Spec => []EachMinuteOnce
  <1>1. ScheduleInv => EachMinuteOnce
    <2> SUFFICES ASSUME ScheduleInv PROVE EachMinuteOnce
      OBVIOUS
    <2>1. TypeOK
      <3>1. previous \in NoTick .. Horizon
        BY ScheduleAssumption DEF ScheduleInv, ScheduleType, NoTick
      <3>2. \A l \in Lanes : runners[l].at \in {"idle", "months", "start", "scan"}
        BY DEF ScheduleInv, ScheduleType, Batches
      <3>3. QED
        BY <3>1, <3>2 DEF ScheduleInv, ScheduleType, TypeOK
    <2>2. RanOnce
      BY DEF ScheduleInv, BatchInv, RanOnce
    <2>3. NoneMissed
      <3>1. groups = {} => due = {}
        BY DEF ScheduleInv, DueInv
      <3>2. QED
        BY <3>1 DEF ScheduleInv, CaughtInv, NoneMissed
    <2>4. QED
      BY <2>1, <2>2, <2>3 DEF EachMinuteOnce
  <1>2. QED
    BY <1>1, ScheduleStart, ScheduleNext, PTL DEF Spec
=============================================================================
