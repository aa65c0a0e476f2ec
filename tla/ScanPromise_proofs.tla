------------------------- MODULE ScanPromise_proofs --------------------------
(***************************************************************************)
(* ScanRun implements ScanPromise, for every set of rows, every cap and    *)
(* every number of runs, when file operations take effect in order and do  *)
(* not fail.                                                               *)
(***************************************************************************)
EXTENDS ScanRun_proofs

-----------------------------------------------------------------------------
(* The invariant the step simulation needs, on top of CapInv (a restart is *)
(* counted before it happens) and RespectInv (the file is behind memory):  *)
(* what is written next continues the file, so the file of a run only      *)
(* grows, and no copy of a run that ended with its file removed is left.   *)

\* What replaces the file is a later journal of its run, or the first of a newer run.
Continues(j) ==
    \/ disk # NoJournal /\ disk.id = j.id /\ JournalRows(disk) \subseteq JournalRows(j)
    \/ JournalRows(j) = {} /\ (disk # NoJournal => disk.id < j.id)

\* Where the file is of the run under way, whatever write is in flight.
Filing == {"countWrite", "pass", "passWrite", "unwind", "unwindWrite", "stallWrite", "mark",
           "cooldown", "skipWrite"}

\* Where the file names every row the run has a result for.
Caught == pc \in {"pass", "stallWrite", "cooldown"} \/ (pc = "unwind" /\ cause # "user")

Over(id) == ended[id] \in Removed

\* At most one write is in flight.
LateParts ==
    /\ \A j \in late : \A k \in late : j = k
    /\ pc \in {"unwind", "unwindWrite"} => NoJournal \notin late
    /\ \A j \in late : j # NoJournal => /\ Continues(j) /\ ~Over(j.id)
                                        /\ HasJournal => j.id = mem.id

FileParts ==
    /\ pc \in {"created", "begin"} => Continues(mem)
    /\ pc \in Filing => disk # NoJournal /\ disk.id = mem.id
    /\ Caught => JournalRows(mem) \subseteq JournalRows(disk)

OverParts ==
    /\ HasJournal => ~Over(mem.id)
    /\ disk # NoJournal => ~Over(disk.id)
    /\ \A id \in Ids : id > runs => ended[id] = "no"

FileInv == CapInv /\ RespectInv /\ LateParts /\ FileParts /\ OverParts

-----------------------------------------------------------------------------
(* The steps of ScanPromise, in the terms of ScanRun.                      *)

Now == IF Active THEN mem.id ELSE 0
File == IF disk = NoJournal THEN NoJournal ELSE [id |-> disk.id, rows |-> JournalRows(disk)]
Left == [id \in Ids |-> MaxResume - restarts[id]]
Gone == {id \in Ids : ended[id] \in Removed}

PromiseStep == [Promise!Next]_(Promise!vars)

\* A step that changes nothing the promise names.
LEMMA StutterStep == ASSUME UNCHANGED <<Now, runs, File, Left, Gone>> PROVE PromiseStep
  BY DEF PromiseStep, Promise!vars, Now, File, Left, Gone

\* The next run begins.
LEMMA BeginStep ==
    ASSUME Now = 0, runs < MaxRuns, runs' = runs + 1, Now' = runs + 1,
           UNCHANGED <<File, Left, Gone>>
    PROVE  PromiseStep
  <1>1. Promise!Begin
    BY DEF Promise!Begin, Now, File, Left, Gone
  <1>2. QED
    BY <1>1 DEF PromiseStep, Promise!Next

\* The file gets rows of its run.
LEMMA RecordStep ==
    ASSUME Typed, Typed', disk # NoJournal, ~Over(disk.id), disk' # NoJournal,
           disk'.id = disk.id, JournalRows(disk) \subseteq JournalRows(disk'),
           UNCHANGED <<Now, runs, Left, Gone>>
    PROVE  PromiseStep
  <1> DEFINE more == JournalRows(disk')
  <1>1. /\ disk.id \in Ids
        /\ File = [id |-> disk.id, rows |-> JournalRows(disk)]
        /\ File' = [id |-> disk.id, rows |-> more]
    BY JournalTyping DEF File, Typed, TypeOK
  <1>2. File \in Filed
    BY <1>1 DEF Filed, JournalRows
  <1>3. File # NoJournal /\ File.id \notin Gone /\ more \in SUBSET Rows
    BY <1>1, <1>2, NoJournalAssumption DEF Over, Gone, JournalRows
  <1>4. File' = [File EXCEPT !.rows = @ \cup more]
    <2> DEFINE g == [File EXCEPT !.rows = @ \cup more]
    <2>1. File' \in Filed /\ File'.id = File.id /\ File'.rows = File.rows \cup more
      BY <1>1, <1>3 DEF Filed
    <2>2. g \in Filed /\ g.id = File.id /\ g.rows = File.rows \cup more
      BY <1>2, <1>3 DEF Filed
    <2> HIDE DEF g
    <2>3. File' = g
      BY <2>1, <2>2 DEF Filed
    <2>4. QED
      BY <2>3 DEF g
  <1>5. Promise!Record(more)
    BY <1>3, <1>4 DEF Promise!Record, Now, File, Left, Gone
  <1>6. QED
    BY <1>3, <1>5 DEF PromiseStep, Promise!Next

\* The file of run i replaces that of an older run.
LEMMA OpenStep ==
    ASSUME NEW i \in Ids, i <= runs, runs \in Nat, ~Over(i), disk # NoJournal => disk.id < i,
           disk' # NoJournal, disk'.id = i, JournalRows(disk') = {},
           UNCHANGED <<Now, runs, Left, Gone>>
    PROVE  PromiseStep
  <1>1. i \in 1 .. runs \ Gone
    BY DEF Over, Gone, Ids
  <1>2. /\ File # NoJournal => File.id < i
        /\ File' = [id |-> i, rows |-> {}]
    BY DEF File
  <1>3. Promise!Open(i)
    BY <1>1, <1>2 DEF Promise!Open, Now, File, Left, Gone
  <1>4. QED
    BY <1>3 DEF PromiseStep, Promise!Next, Promise!Ids, Ids

\* The file is removed by a write of a run that ended before.
LEMMA RemoveStep ==
    ASSUME disk' = NoJournal, UNCHANGED <<Now, runs, Left, Gone>> PROVE PromiseStep
  <1>1. Promise!Remove
    BY DEF Promise!Remove, Now, File, Left, Gone
  <1>2. QED
    BY <1>1 DEF PromiseStep, Promise!Next

\* Run i ends and takes its file with it.
LEMMA EndStep ==
    ASSUME NEW i \in Ids, Now \in {0, i}, Now' = 0, disk' = NoJournal, Gone' = Gone \cup {i},
           UNCHANGED <<runs, Left>>
    PROVE  PromiseStep
  <1>1. Promise!End(i)
    BY DEF Promise!End, Now, File, Left, Gone
  <1>2. QED
    BY <1>1 DEF PromiseStep, Promise!Next, Promise!Ids, Ids

\* The run under way stops and leaves its file.
LEMMA LeaveStep ==
    ASSUME Now # 0, Now' = 0, UNCHANGED <<runs, File, Left, Gone>> PROVE PromiseStep
  <1>1. Promise!Leave
    BY DEF Promise!Leave, Now, File, Left, Gone
  <1>2. QED
    BY <1>1 DEF PromiseStep, Promise!Next

\* Run i is restarted: under way already, or the run of the file.
LEMMA RestartStep ==
    ASSUME NEW i \in Ids, Now = i \/ (Now = 0 /\ disk # NoJournal /\ disk.id = i /\ disk \in Journal),
           ~Over(i), restarts \in [Ids -> Nat], restarts[i] < MaxResume, Now' = i,
           restarts' = [restarts EXCEPT ![i] = @ + 1], UNCHANGED <<runs, File, Gone>>
    PROVE  PromiseStep
  <1>1. Now = i \/ (Now = 0 /\ File # NoJournal /\ File.id = i)
    <2>1. ASSUME disk # NoJournal, disk.id = i, disk \in Journal
          PROVE  File # NoJournal /\ File.id = i
      <3>1. File = [id |-> i, rows |-> JournalRows(disk)]
        BY <2>1 DEF File
      <3>2. File \in Filed
        BY <3>1 DEF Filed, JournalRows
      <3>3. QED
        BY <3>1, <3>2, NoJournalAssumption
    <2>2. QED
      BY <2>1
  <1>2. i \in Ids \ Gone
    BY DEF Over, Gone
  <1>3. Left[i] > 0 /\ Left' = [Left EXCEPT ![i] = @ - 1]
    <2>1. \A id \in Ids : restarts[id] \in Nat /\ restarts'[id] = IF id = i THEN restarts[id] + 1
                                                                 ELSE restarts[id]
      OBVIOUS
    <2>2. Left[i] = MaxResume - restarts[i] /\ Left[i] > 0
      BY <2>1, RunAssumption DEF Left
    <2>3. \A id \in Ids : MaxResume - restarts'[id] = IF id = i THEN Left[id] - 1 ELSE Left[id]
      BY <2>1, RunAssumption DEF Left
    <2>4. Left' = [id \in Ids |-> IF id = i THEN Left[id] - 1 ELSE Left[id]]
      BY <2>3 DEF Left
    <2>5. [Left EXCEPT ![i] = @ - 1] = [id \in Ids |-> IF id = i THEN Left[id] - 1 ELSE Left[id]]
      BY DEF Left
    <2>6. QED
      BY <2>2, <2>4, <2>5
  <1>4. Promise!Restart(i)
    BY <1>1, <1>2, <1>3 DEF Promise!Restart, Promise!Ids, Ids, Now, File, Left, Gone
  <1>5. QED
    BY <1>4 DEF PromiseStep, Promise!Next, Promise!Ids, Ids

-----------------------------------------------------------------------------
(* Every step of ScanRun keeps FileInv and is a step of ScanPromise.       *)

\* What the proofs below use of FileInv.
LEMMA FileFacts ==
    ASSUME FileInv
    PROVE  /\ Typed /\ runs \in Nat /\ restarts \in [Ids -> Nat] /\ ended \in [Ids -> Ending]
           /\ HasJournal => mem \in Journal /\ mem # NoJournal /\ mem.id \in Ids /\ ~Over(mem.id)
           /\ HasJournal /\ disk # NoJournal /\ disk.id = mem.id
                  => JournalRows(disk) \subseteq JournalRows(mem)
           /\ mem # NoJournal => mem.id <= runs
           /\ disk # NoJournal => disk \in Journal /\ disk.id \in Ids /\ disk.id <= runs
  <1>1. Typed /\ runs \in Nat /\ restarts \in [Ids -> Nat] /\ ended \in [Ids -> Ending]
    BY RunAssumption DEF FileInv, RespectInv, Typed, TypeOK
  <1>2. HasJournal => mem \in Journal /\ mem # NoJournal /\ mem.id \in Ids /\ ~Over(mem.id)
    BY <1>1, JournalTyping DEF FileInv, OverParts, Typed, TypeOK
  <1>3. disk # NoJournal => disk \in Journal /\ disk.id \in Ids /\ disk.id <= runs
    BY <1>1, JournalTyping DEF FileInv, RespectInv, Typed, TypeOK
  <1>4. mem # NoJournal => mem.id <= runs
    BY DEF FileInv, RespectInv
  <1>5. HasJournal /\ disk # NoJournal /\ disk.id = mem.id
            => JournalRows(disk) \subseteq JournalRows(mem)
    BY DEF FileInv, RespectInv, Behind
  <1>6. QED
    BY <1>1, <1>2, <1>3, <1>4, <1>5

\* A step of the run under way that writes nothing.
LEMMA QuietStep ==
    ASSUME FileInv, UNCHANGED <<disk, runs, restarts, ended>>, Active, Active', mem'.id = mem.id
    PROVE  OverParts' /\ PromiseStep
  <1>1. OverParts'
    BY DEF FileInv, OverParts, Over, HasJournal
  <1>2. UNCHANGED <<Now, runs, File, Left, Gone>>
    BY DEF Now, File, Left, Gone
  <1>3. QED
    BY <1>1, <1>2, StutterStep

\* A step that writes the journal in memory, with no older write in flight.
LEMMA WrittenStep ==
    ASSUME FileInv, Typed', late = {}, late' = late, disk' = mem, Active, Active',
           mem' \in {mem, WithAttempt(mem)}, UNCHANGED <<runs, ended>>,
           pc \in Filing \/ pc = "begin", pc' \notin {"created", "begin"}
    PROVE  /\ LateParts' /\ FileParts' /\ OverParts'
           /\ restarts' = restarts => PromiseStep
  <1>1. HasJournal /\ mem \in Journal /\ mem # NoJournal /\ mem.id \in Ids /\ mem.id <= runs
        /\ ~Over(mem.id) /\ Typed /\ runs \in Nat
    BY FileFacts DEF HasJournal
  <1>2. mem'.id = mem.id /\ JournalRows(mem') = JournalRows(mem)
    BY <1>1 DEF WithAttempt, Journal, JournalRows
  <1>3. Continues(mem)
    BY <1>1, FileFacts DEF FileInv, FileParts, Continues
  <1>4. LateParts' /\ FileParts' /\ OverParts'
    BY <1>1, <1>2 DEF LateParts, FileParts, OverParts, Over, FileInv
  <1>5. ASSUME restarts' = restarts PROVE PromiseStep
    <2>1. UNCHANGED <<Now, runs, Left, Gone>> /\ disk' # NoJournal /\ disk'.id = mem.id
      BY <1>1, <1>2, <1>5 DEF Now, Left, Gone
    <2>2. CASE disk # NoJournal /\ disk.id = mem.id /\ JournalRows(disk) \subseteq JournalRows(mem)
      <3>1. ~Over(disk.id) /\ disk'.id = disk.id /\ JournalRows(disk) \subseteq JournalRows(disk')
        BY <1>1, <2>1, <2>2
      <3>2. QED
        BY <1>1, <2>1, <2>2, <3>1, RecordStep
    <2>3. CASE JournalRows(mem) = {} /\ (disk # NoJournal => disk.id < mem.id)
      <3>1. JournalRows(disk') = {}
        BY <2>3
      <3>2. QED
        BY <1>1, <2>1, <2>3, <3>1, OpenStep
    <2>4. QED
      BY <1>3, <2>2, <2>3 DEF Continues
  <1>6. QED
    BY <1>4, <1>5

\* The steps of a run that write its journal.
LEMMA WritingSteps ==
    ASSUME ~SlowWrites, ~DiskFails, FileInv, Typed',
           \/ BeginWritten \/ PassWritten \/ UnwindWritten \/ StallWritten
           \/ MarkWritten \/ SkipWritten
    PROVE  LateParts' /\ FileParts' /\ OverParts' /\ PromiseStep
  <1>1. late = {} /\ late' = late /\ disk' = mem
    BY DEF BeginWritten, PassWritten, UnwindWritten, StallWritten, MarkWritten, SkipWritten,
           FileBecomes, Settled
  <1>2. Active /\ Active' /\ (pc \in Filing \/ pc = "begin") /\ pc' \notin {"created", "begin"}
    BY DEF BeginWritten, PassWritten, UnwindWritten, AfterUnwind, StallWritten, MarkWritten,
           AfterMain, SkipWritten, Active, RunPc, Filing
  <1>3. mem' \in {mem, WithAttempt(mem)} /\ UNCHANGED <<runs, ended>>
    BY DEF BeginWritten, PassWritten, UnwindWritten, AfterUnwind, StallWritten, MarkWritten,
           SkipWritten, told
  <1>4. LateParts' /\ FileParts' /\ OverParts' /\ (restarts' = restarts => PromiseStep)
    BY <1>1, <1>2, <1>3, WrittenStep
  <1>5. ASSUME restarts' # restarts PROVE PromiseStep
    <2>1. /\ pc = "stallWrite" /\ mem' = mem /\ mem.attempts <= MaxResume
          /\ restarts' = [restarts EXCEPT ![mem.id] = @ + 1]
      <3>1. StallWritten
        BY <1>5 DEF BeginWritten, PassWritten, UnwindWritten, MarkWritten, SkipWritten, told
      <3>2. ~(mem.attempts > MaxResume) /\ mem.attempts \in Nat
        BY <1>2, <1>5, <3>1, FileFacts, JournalTyping DEF StallWritten, HasJournal
      <3>3. QED
        BY <3>1, <3>2, RunAssumption DEF StallWritten
    <2>2. HasJournal /\ mem \in Journal /\ mem # NoJournal /\ mem.id \in Ids /\ ~Over(mem.id)
          /\ restarts \in [Ids -> Nat] /\ mem.attempts \in Nat
      BY <1>2, FileFacts, JournalTyping DEF HasJournal
    <2>3. restarts[mem.id] < MaxResume
      <3>1. restarts[mem.id] < mem.attempts /\ restarts[mem.id] \in Nat
        BY <2>1, <2>2 DEF FileInv, CapInv
      <3>2. QED
        BY <2>1, <2>2, <3>1, RunAssumption
    <2>4. File' = File
      <3>1. disk # NoJournal /\ disk.id = mem.id /\ JournalRows(disk) = JournalRows(mem)
        BY <2>1, <2>2, FileFacts DEF FileInv, FileParts, Filing, Caught
      <3>2. QED
        BY <1>1, <2>2, <3>1 DEF File
    <2>5. Now = mem.id /\ Now' = mem.id
      BY <1>2, <2>1 DEF Now
    <2>6. UNCHANGED <<runs, File, Gone>>
      BY <1>3, <2>4 DEF Gone
    <2>7. QED
      BY <2>1, <2>2, <2>3, <2>5, <2>6, RestartStep
  <1>6. QED
    BY <1>4, <1>5

\* The steps of a run that leave the file alone, and are not its end.
LEMMA QuietSteps ==
    ASSUME FileInv, Typed',
           \/ BeginJournal \/ PassSave \/ UnwindSave \/ MainDone \/ RetryDone \/ LoginDone
           \/ (\E why \in {"stall", "failed"} : PassBreaks(why))
           \/ UnwindNothing \/ UnwindFails \/ CooldownOver \/ SkipRetry \/ Close \/ CloseFails
    PROVE  LateParts' /\ FileParts' /\ OverParts' /\ PromiseStep
  <1>1. RunStep /\ Active /\ Active' /\ UNCHANGED <<disk, late, runs, restarts, ended>>
    BY DEF RunStep, PassStep, BeginJournal, PassSave, UnwindSave, MainDone, RetryDone, LoginDone,
           PassBreaks, UnwindNothing, AfterUnwind, UnwindFails, CooldownOver, SkipRetry, Close,
           CloseFails, Active, RunPc, filed, told
  <1>2. mem \in Journal /\ mem'.id = mem.id
    BY <1>1, RunGrows DEF FileInv
  <1>3. OverParts' /\ PromiseStep
    BY <1>1, <1>2, QuietStep
  <1>4. LateParts'
    <2>1. pc' \in {"unwind", "unwindWrite"} => NoJournal \notin late
      <3>1. pc' \in {"unwind", "unwindWrite"} => pc \in {"pass", "unwind"}
        BY <1>1 DEF BeginJournal, PassSave, UnwindSave, MainDone, RetryDone, LoginDone,
             PassBreaks, UnwindNothing, AfterUnwind, UnwindFails, CooldownOver, SkipRetry, Close,
             CloseFails
      <3>2. pc = "pass" => late = {}
        BY DEF FileInv, CapInv
      <3>3. QED
        BY <3>1, <3>2 DEF FileInv, LateParts
    <2>2. QED
      BY <1>1, <1>2, <2>1 DEF FileInv, LateParts, Continues, Over, HasJournal
  <1>5. pc' \in {"created", "begin"} => Continues(mem)'
    <2>1. pc' \in {"created", "begin"} => pc = "created" /\ mem' = mem
      BY DEF BeginJournal, PassSave, UnwindSave, MainDone, RetryDone, LoginDone, PassBreaks,
             UnwindNothing, AfterUnwind, UnwindFails, CooldownOver, SkipRetry, Close, CloseFails
    <2>2. QED
      BY <1>1, <2>1 DEF FileInv, FileParts, Continues
  <1>6. pc' \in Filing => disk' # NoJournal /\ disk'.id = mem'.id
    <2>1. pc' \in Filing => pc \in Filing
      BY DEF BeginJournal, PassSave, UnwindSave, MainDone, RetryDone, LoginDone, PassBreaks,
             UnwindNothing, AfterUnwind, UnwindFails, CooldownOver, SkipRetry, Close, CloseFails,
             Filing
    <2>2. QED
      BY <1>1, <1>2, <2>1 DEF FileInv, FileParts
  <1>7. Caught' => JournalRows(mem') \subseteq JournalRows(disk')
    <2>1. Caught' => Caught /\ mem' \in {mem, WithAttempt(mem)}
      BY DEF BeginJournal, PassSave, UnwindSave, MainDone, RetryDone, LoginDone, PassBreaks,
             UnwindNothing, AfterUnwind, UnwindFails, CooldownOver, SkipRetry, Close, CloseFails,
             Caught
    <2>2. JournalRows(WithAttempt(mem)) = JournalRows(mem)
      BY <1>2 DEF WithAttempt, Journal, JournalRows
    <2>3. QED
      BY <1>1, <2>1, <2>2 DEF FileInv, FileParts
  <1>8. QED
    BY <1>3, <1>4, <1>5, <1>6, <1>7 DEF FileParts

\* A run that ends with its file left behind: nothing of it is marked over.
LEMMA LeavingStep ==
    ASSUME FileInv, Typed', Active, pc' = "idle", UNCHANGED <<mem, disk, runs, restarts>>,
           NEW how, how \notin Removed, ended' = [ended EXCEPT ![mem.id] = how]
    PROVE  OverParts' /\ PromiseStep /\ \A id \in Ids : Over(id)' = Over(id)
  <1>1. mem \in Journal /\ mem.id \in Ids /\ ~Over(mem.id) /\ mem.id <= runs /\ runs \in Nat
        /\ ended \in [Ids -> Ending] /\ (disk # NoJournal => disk.id \in Ids)
    BY FileFacts DEF HasJournal
  <1>2. \A id \in Ids : ended'[id] = IF id = mem.id THEN how ELSE ended[id]
    BY <1>1
  <1>3. ASSUME NEW id \in Ids PROVE (ended'[id] \in Removed) = (ended[id] \in Removed)
    BY <1>1, <1>2 DEF Over
  <1>4. OverParts'
    <2>1. ~HasJournal'
      BY DEF HasJournal, Active, RunPc
    <2>2. disk # NoJournal => ended'[disk.id] \notin Removed
      BY <1>1, <1>3 DEF FileInv, OverParts, Over
    <2>3. \A id \in Ids : id > runs' => ended'[id] = "no"
      BY <1>1, <1>2 DEF FileInv, OverParts, Ids
    <2>4. QED
      BY <2>1, <2>2, <2>3 DEF OverParts, Over
  <1>5. PromiseStep
    <2>1. Now # 0 /\ Now' = 0
      BY <1>1 DEF Now, Active, RunPc, Ids
    <2>2. UNCHANGED <<runs, File, Left, Gone>>
      BY <1>3 DEF File, Left, Gone
    <2>3. QED
      BY <2>1, <2>2, LeaveStep
  <1>6. QED
    BY <1>3, <1>4, <1>5 DEF Over

\* A run that ends, or is given up, and takes its file with it.
LEMMA EndingStep ==
    ASSUME FileInv, Typed', HasJournal, late = {}, late' = late, disk' = NoJournal, pc' = "idle",
           UNCHANGED <<mem, runs, restarts>>,
           NEW how \in Removed, ended' = [ended EXCEPT ![mem.id] = how]
    PROVE  LateParts' /\ FileParts' /\ OverParts' /\ PromiseStep
  <1>1. mem \in Journal /\ mem.id \in Ids /\ mem.id <= runs /\ runs \in Nat
        /\ ended \in [Ids -> Ending]
    BY FileFacts
  <1>2. \A id \in Ids : ended'[id] = IF id = mem.id THEN how ELSE ended[id]
    BY <1>1
  <1>3. ~HasJournal' /\ pc' \notin Filing /\ ~Caught' /\ pc' \notin {"created", "begin"}
    BY DEF HasJournal, Active, RunPc, Filing, Caught
  <1>4. \A id \in Ids : id > runs' => ended'[id] = "no"
    BY <1>1, <1>2 DEF FileInv, OverParts, Ids
  <1>5. LateParts' /\ FileParts' /\ OverParts'
    BY <1>3, <1>4 DEF LateParts, FileParts, OverParts
  <1>6. PromiseStep
    <2>1. Now \in {0, mem.id} /\ Now' = 0
      BY DEF Now, Active, RunPc
    <2>2. Gone' = Gone \cup {mem.id}
      BY <1>1, <1>2 DEF Gone
    <2>3. UNCHANGED <<runs, Left>>
      BY DEF Left
    <2>4. QED
      BY <1>1, <2>1, <2>2, <2>3, EndStep
  <1>7. QED
    BY <1>5, <1>6

\* The ends of a run in its own task, and the resume that gives one up.
LEMMA EndingSteps ==
    ASSUME ~SlowWrites, ~DiskFails, FileInv, Typed', SheetGone \/ Cleared \/ GiveUp
    PROVE  LateParts' /\ FileParts' /\ OverParts' /\ PromiseStep
  <1>1. CASE SheetGone
    <2>1. Active /\ pc' = "idle" /\ late' = late /\ UNCHANGED <<mem, disk, runs, restarts>>
          /\ ended' = [ended EXCEPT ![mem.id] = "failedKept"]
      BY <1>1 DEF SheetGone, EndRun, Active, RunPc, filed
    <2>2. late = {}
      BY <1>1 DEF SheetGone, FileInv, CapInv
    <2>3. OverParts' /\ PromiseStep
      <3>1. "failedKept" \notin Removed
        BY DEF Removed
      <3>2. QED
        BY <2>1, <3>1, LeavingStep
    <2>4. LateParts' /\ FileParts'
      BY <2>1, <2>2 DEF LateParts, FileParts, Filing, Caught
    <2>5. QED
      BY <2>3, <2>4
  <1>2. CASE Cleared
    <2>1. HasJournal /\ late = {} /\ late' = late /\ disk' = NoJournal /\ pc' = "idle"
          /\ UNCHANGED <<mem, runs, restarts>>
          /\ ended' = [ended EXCEPT ![mem.id] = Outcome]
      BY <1>2 DEF Cleared, EndRun, FileBecomes, Settled, HasJournal, Active, RunPc
    <2>2. Outcome \in Removed
      BY DEF Outcome, Removed
    <2>3. QED
      BY <2>1, <2>2, EndingStep
  <1>3. CASE GiveUp
    <2>1. HasJournal /\ late = {} /\ late' = late /\ disk' = NoJournal /\ pc' = "idle"
          /\ UNCHANGED <<mem, runs, restarts>>
          /\ ended' = [ended EXCEPT ![mem.id] = "givenUp"]
      BY <1>3 DEF GiveUp, FileBecomes, Settled, HasJournal
    <2>2. "givenUp" \in Removed
      BY DEF Removed
    <2>3. QED
      BY <2>1, <2>2, EndingStep
  <1>4. QED
    BY <1>1, <1>2, <1>3

\* A cancel abandons at most one write, and only where none is in flight; what it abandons
\* continues the file.
LEMMA CancelSteps ==
    ASSUME FileInv, Typed', UserCancel
    PROVE  LateParts' /\ FileParts' /\ OverParts' /\ PromiseStep
  <1>0. /\ Active /\ HasJournal /\ mem' = mem /\ UNCHANGED <<disk, runs, restarts>>
        /\ mem \in Journal /\ mem # NoJournal /\ mem.id \in Ids /\ ~Over(mem.id)
    <2>1. Active /\ mem' = mem /\ UNCHANGED <<disk, runs, restarts>>
      BY DEF UserCancel, CancelUnjournaled, CancelPass, CancelOutsidePass, Abandon, Active, RunPc,
             filed, told
    <2>2. QED
      BY <2>1, FileFacts DEF HasJournal
  <1>1. pc \in Filing \cup {"begin"} => Continues(mem)
    BY <1>0, FileFacts DEF FileInv, FileParts, Continues
  <1>2. \/ late' = late /\ (late = {} \/ pc' = pc)
        \/ late = {} /\ late' = {mem} /\ pc \in Filing \cup {"begin"}
        \/ late = {} /\ late' = {NoJournal} /\ pc' \in {"idle", "clear"}
    BY DEF UserCancel, CancelUnjournaled, CancelPass, CancelOutsidePass, Abandon, Filing, EndRun,
           FileInv, CapInv, filed
  <1>3. CASE CancelUnjournaled
    <2>1. pc' = "idle" /\ ended' = [ended EXCEPT ![mem.id] = "cancelledKept"]
      BY <1>3 DEF CancelUnjournaled, EndRun
    <2>2. "cancelledKept" \notin Removed
      BY DEF Removed
    <2>3. OverParts' /\ PromiseStep /\ \A id \in Ids : Over(id)' = Over(id)
      BY <1>0, <2>1, <2>2, LeavingStep
    <2>4. FileParts' /\ ~HasJournal'
      BY <2>1 DEF FileParts, Filing, Caught, HasJournal, Active, RunPc
    <2>5. pc # "idle"
      BY <1>0 DEF Active, RunPc
    <2>6. LateParts'
      BY <1>0, <1>1, <1>2, <2>1, <2>3, <2>4, <2>5 DEF LateParts, Continues
    <2>7. QED
      BY <2>3, <2>4, <2>6
  <1>4. CASE CancelPass \/ CancelOutsidePass
    <2>1. Active' /\ ended' = ended /\ pc' \in {"unwind", "unwindWrite", "clear"}
          /\ (pc' # "clear" => pc \in Filing) /\ cause' = "user"
      BY <1>4 DEF CancelPass, CancelOutsidePass, Active, RunPc, Filing, told
    <2>2. OverParts' /\ PromiseStep
      BY <1>0, <2>1, QuietStep
    <2>3. FileParts'
      BY <1>0, <2>1 DEF FileInv, FileParts, Filing, Caught
    <2>4. \A id \in Ids : Over(id)' = Over(id)
      BY <2>1 DEF Over
    <2>5. LateParts'
      BY <1>0, <1>1, <1>2, <2>1, <2>4 DEF FileInv, LateParts, Continues, Over
    <2>6. QED
      BY <2>2, <2>3, <2>5
  <1>5. QED
    BY <1>3, <1>4 DEF UserCancel

\* A resume before its run: it counts itself in the file of that run, then restarts it.
LEMMA ResumeSteps ==
    ASSUME ~DiskFails, FileInv, Typed', ResumeLoad \/ ResumeCount \/ ResumeStart \/ ResumeRefused
    PROVE  LateParts' /\ FileParts' /\ OverParts' /\ PromiseStep
  <1>0. late = {} /\ late' = late /\ UNCHANGED <<runs, ended>> /\ ~Active
    BY DEF ResumeLoad, ResumeCount, ResumeStart, ResumeRefused, FileInv, RespectInv, ResumePc,
           Active, RunPc, filed, told
  <1>1. LateParts'
    BY <1>0 DEF LateParts
  <1>2. CASE ResumeLoad
    <2>1. disk' = disk /\ restarts' = restarts /\ pc' \in {"idle", "giveUp", "countWrite"}
          /\ (pc' = "giveUp" => disk # NoJournal /\ mem' = disk)
          /\ (pc' = "countWrite" => disk # NoJournal /\ mem' = WithAttempt(disk))
      BY <1>2 DEF ResumeLoad, filed, told
    <2>2. disk # NoJournal => WithAttempt(disk).id = disk.id /\ ~Over(disk.id)
      BY FileFacts DEF WithAttempt, Journal, FileInv, OverParts
    <2>3. FileParts' /\ OverParts'
      BY <1>0, <2>1, <2>2
         DEF FileParts, OverParts, FileInv, Over, Filing, Caught, HasJournal, Active, RunPc
    <2>4. UNCHANGED <<Now, runs, File, Left, Gone>>
      BY <1>0, <2>1 DEF Now, File, Left, Gone, Active, RunPc
    <2>5. QED
      BY <1>1, <2>3, <2>4, StutterStep
  <1>3. CASE ResumeCount
    <2>1. disk' = mem /\ mem' = mem /\ restarts' = restarts /\ pc' = "prepare" /\ pc = "countWrite"
      BY <1>3 DEF ResumeCount, told
    <2>2. HasJournal /\ mem # NoJournal /\ ~Over(mem.id) /\ disk # NoJournal /\ disk.id = mem.id
          /\ JournalRows(disk) \subseteq JournalRows(mem) /\ Typed
      BY <2>1, FileFacts DEF HasJournal, FileInv, FileParts, Filing
    <2>3. FileParts' /\ OverParts'
      BY <1>0, <2>1, <2>2 DEF FileParts, OverParts, FileInv, Over, Filing, Caught
    <2>4. UNCHANGED <<Now, runs, Left, Gone>>
      BY <1>0, <2>1 DEF Now, Left, Gone, Active, RunPc
    <2>5. disk' # NoJournal /\ disk'.id = disk.id /\ ~Over(disk.id)
          /\ JournalRows(disk) \subseteq JournalRows(disk')
      BY <2>1, <2>2
    <2>6. QED
      BY <1>1, <2>2, <2>3, <2>4, <2>5, RecordStep
  <1>4. CASE ResumeStart
    <2>1. /\ disk' = disk /\ mem' = mem /\ pc = "prepare" /\ pc' = "created"
          /\ restarts' = [restarts EXCEPT ![mem.id] = @ + 1]
      BY <1>4 DEF ResumeStart, filed
    <2>2. HasJournal /\ mem \in Journal /\ mem # NoJournal /\ mem.id \in Ids /\ ~Over(mem.id)
          /\ restarts \in [Ids -> Nat] /\ mem.attempts \in Nat
      BY <2>1, FileFacts, JournalTyping DEF HasJournal
    <2>3. disk = mem /\ restarts[mem.id] < MaxResume
      <3>1. disk = mem /\ restarts[mem.id] < mem.attempts /\ mem.attempts <= MaxResume
            /\ restarts[mem.id] \in Nat
        BY <2>1, <2>2 DEF FileInv, CapInv
      <3>2. QED
        BY <2>2, <3>1, RunAssumption
    <2>4. FileParts' /\ OverParts'
      BY <1>0, <2>1, <2>2, <2>3
         DEF FileParts, OverParts, FileInv, Over, Filing, Caught, Continues, HasJournal
    <2>5. Now = 0 /\ Now' = mem.id
      BY <1>0, <2>1 DEF Now, Active, RunPc
    <2>6. UNCHANGED <<runs, File, Gone>>
      BY <1>0, <2>1 DEF File, Gone
    <2>7. PromiseStep
      BY <2>1, <2>2, <2>3, <2>5, <2>6, RestartStep
    <2>8. QED
      BY <1>1, <2>4, <2>7
  <1>5. CASE ResumeRefused
    <2>1. disk' = disk /\ mem' = mem /\ restarts' = restarts /\ pc' = "giveUp" /\ HasJournal
      BY <1>5 DEF ResumeRefused, HasJournal, filed, told
    <2>2. FileParts' /\ OverParts'
      BY <1>0, <2>1 DEF FileParts, OverParts, FileInv, Over, Filing, Caught
    <2>3. UNCHANGED <<Now, runs, File, Left, Gone>>
      BY <1>0, <2>1 DEF Now, File, Left, Gone, Active, RunPc
    <2>4. QED
      BY <1>1, <2>2, <2>3, StutterStep
  <1>6. QED
    BY <1>2, <1>3, <1>4, <1>5

\* A fresh run, the death of the process, and a write that outlived its run.
LEMMA OutsideSteps ==
    ASSUME FileInv, Typed', FreshStart \/ Die \/ \E j \in late : LateWrite(j)
    PROVE  LateParts' /\ FileParts' /\ OverParts' /\ PromiseStep
  <1>0. runs \in Nat /\ Typed /\ (disk # NoJournal => disk.id \in Ids /\ disk.id <= runs)
    BY FileFacts
  <1>1. CASE FreshStart
    <2>1. /\ pc = "idle" /\ runs < MaxRuns /\ runs' = runs + 1 /\ mem' = Unscanned(runs + 1)
          /\ late = {} /\ late' = late /\ pc' = "created" /\ UNCHANGED <<disk, restarts, ended>>
      BY <1>1 DEF FreshStart, filed
    <2>2. runs + 1 \in Ids
      BY <1>0, <2>1, RunAssumption DEF Ids
    <2>3. mem'.id = runs + 1 /\ JournalRows(mem') = {}
      BY <2>1 DEF Unscanned, JournalRows
    <2>4. disk # NoJournal => disk.id < runs + 1
      BY <1>0 DEF Ids
    <2>5. LateParts'
      BY <2>1 DEF LateParts
    <2>6. FileParts'
      <3>1. Continues(mem)'
        BY <2>1, <2>3, <2>4 DEF Continues
      <3>2. pc' \notin Filing /\ ~Caught'
        BY <2>1 DEF Filing, Caught
      <3>3. QED
        BY <3>1, <3>2 DEF FileParts
    <2>7. OverParts'
      <3>1. \A id \in Ids : id > runs => ended[id] = "no"
        BY DEF FileInv, OverParts
      <3>2. ended[runs + 1] = "no"
        BY <1>0, <2>2, <3>1
      <3>3. ~(ended[runs + 1] \in Removed)
        BY <3>2 DEF Removed
      <3>4. \A id \in Ids : id > runs' => ended'[id] = "no"
        BY <1>0, <2>1, <3>1 DEF Ids
      <3>5. QED
        BY <2>1, <2>3, <3>3, <3>4 DEF FileInv, OverParts, Over
    <2>8. PromiseStep
      <3>1. Now = 0 /\ Now' = runs + 1
        BY <2>1, <2>3 DEF Now, Active, RunPc
      <3>2. UNCHANGED <<File, Left, Gone>>
        BY <2>1 DEF File, Left, Gone
      <3>3. QED
        BY <2>1, <3>1, <3>2, BeginStep
    <2>9. QED
      BY <2>5, <2>6, <2>7, <2>8
  <1>2. CASE Die
    <2>1. late' = {} /\ UNCHANGED <<disk, runs, restarts, ended>> /\ pc' \in {"idle", "resume"}
      BY <1>2 DEF Die, told
    <2>2. ~HasJournal' /\ ~Active' /\ pc' \notin Filing \cup {"created", "begin"} /\ ~Caught'
      BY <2>1 DEF HasJournal, Active, RunPc, Filing, Caught
    <2>3. LateParts' /\ FileParts' /\ OverParts'
      BY <2>1, <2>2 DEF LateParts, FileParts, OverParts, FileInv, Over
    <2>4. Now' = 0 /\ UNCHANGED <<runs, File, Left, Gone>>
      BY <2>1, <2>2 DEF Now, File, Left, Gone
    <2>5. QED
      BY <2>3, <2>4, LeaveStep, StutterStep
  <1>3. CASE \E j \in late : LateWrite(j)
    <2>1. PICK j \in late : LateWrite(j)
      BY <1>3
    <2>2. /\ disk' = j /\ late' = {}
          /\ UNCHANGED <<pc, cause, mem, runs, restarts, ended>>
      BY <2>1 DEF LateWrite, FileInv, LateParts, told, results
    <2>3. \/ pc = "idle" \/ pc = "clear"
          \/ pc \in {"unwind", "unwindWrite"} /\ cause = "user"
      BY <2>1 DEF FileInv, CapInv
    <2>4. j # NoJournal => /\ j \in Journal /\ j.id \in Ids /\ j.id <= runs
                           /\ Continues(j) /\ ~Over(j.id) /\ (HasJournal => j.id = mem.id)
      <3>1. j # NoJournal => j \in Journal /\ j.id \in Ids
        BY <1>0, <2>1, JournalTyping DEF Typed, TypeOK
      <3>2. QED
        BY <2>1, <3>1 DEF FileInv, RespectInv, LateParts
    <2>5. pc \in {"unwind", "unwindWrite"} => j # NoJournal /\ HasJournal
      BY <2>1 DEF FileInv, LateParts, HasJournal, Active, RunPc
    <2>6. LateParts' /\ FileParts'
      BY <2>2, <2>3, <2>4, <2>5 DEF LateParts, FileParts, Filing, Caught
    <2>7. OverParts'
      BY <2>2, <2>4 DEF FileInv, OverParts, Over, HasJournal, Active
    <2>8. UNCHANGED <<Now, runs, Left, Gone>>
      BY <2>2 DEF Now, Left, Gone, Active
    <2>9. CASE j = NoJournal
      BY <2>2, <2>6, <2>7, <2>8, <2>9, RemoveStep
    <2>10. CASE j # NoJournal
      <3>1. CASE /\ disk # NoJournal /\ disk.id = j.id
                 /\ JournalRows(disk) \subseteq JournalRows(j)
        <4>1. disk' # NoJournal /\ disk'.id = disk.id /\ ~Over(disk.id)
              /\ JournalRows(disk) \subseteq JournalRows(disk')
          BY <2>2, <2>4, <2>10, <3>1
        <4>2. QED
          BY <1>0, <2>6, <2>7, <2>8, <3>1, <4>1, RecordStep
      <3>2. CASE JournalRows(j) = {} /\ (disk # NoJournal => disk.id < j.id)
        <4>1. disk' # NoJournal /\ disk'.id = j.id /\ JournalRows(disk') = {}
          BY <2>2, <2>10, <3>2
        <4>2. PromiseStep
          BY <1>0, <2>4, <2>8, <2>10, <3>2, <4>1, OpenStep
        <4>3. QED
          BY <2>6, <2>7, <4>2
      <3>3. QED
        BY <2>4, <2>10, <3>1, <3>2 DEF Continues
    <2>11. QED
      BY <2>9, <2>10
  <1>4. QED
    BY <1>1, <1>2, <1>3

\* Every step keeps FileInv and is a step of the promise.
LEMMA FileNext ==
    ASSUME ~SlowWrites, ~DiskFails
    PROVE  FileInv /\ [Next]_vars => FileInv' /\ PromiseStep
  <1> SUFFICES ASSUME FileInv, [Next]_vars PROVE FileInv' /\ PromiseStep
    OBVIOUS
  <1>1. CapInv' /\ RespectInv' /\ Typed'
    BY CapNext, RespectNext DEF FileInv, RespectInv
  <1>2. CASE UNCHANGED vars
    <2>1. LateParts' /\ FileParts' /\ OverParts'
      BY <1>2 DEF vars, FileInv, LateParts, FileParts, OverParts, Continues, Over, Caught,
                  HasJournal, Active
    <2>2. UNCHANGED <<Now, runs, File, Left, Gone>>
      BY <1>2 DEF vars, Now, File, Left, Gone, Active
    <2>3. QED
      BY <1>1, <2>1, <2>2, StutterStep DEF FileInv
  <1>3. CASE RunStep
    BY <1>1, <1>3, WritingSteps, QuietSteps, EndingSteps DEF RunStep, PassStep, FileInv
  <1>4. CASE Next /\ ~RunStep
    BY <1>1, <1>4, ResumeSteps, EndingSteps, CancelSteps, OutsideSteps
       DEF Next, ResumeStep, FileInv
  <1>5. QED
    BY <1>2, <1>3, <1>4

\* As long as journal writes take effect in order and do not fail, a run keeps the promise of
\* ScanPromise: one run at a time, one file that names rows of one run and only grows, at most
\* MaxResume restarts, and none of a run that ended with its file removed.
THEOREM PromiseKept == ASSUME ~SlowWrites, ~DiskFails PROVE Spec => KeepsPromise
  <1>1. Init => FileInv /\ Promise!Init
    <2> SUFFICES ASSUME Init PROVE FileInv /\ Promise!Init
      OBVIOUS
    <2>1. Typed
      BY TypeInit
    <2>2. CapInv
      BY <2>1, RunAssumption DEF Init, CapInv, Typed, RestartsCapped, Counted, Active, HasJournal
    <2>3. RespectInv
      BY <2>1 DEF Init, RespectInv, Scanning, HasJournal, Active, RunPc, ResumePc
    <2>4. LateParts /\ FileParts /\ OverParts
      BY DEF Init, LateParts, FileParts, OverParts, Filing, Caught, HasJournal, Active, RunPc
    <2>5. Promise!Init
      <3>1. Left = [id \in Ids |-> MaxResume]
        BY RunAssumption DEF Init, Left
      <3>2. Gone = {}
        BY DEF Init, Gone, Removed
      <3>3. Now = 0 /\ File = NoJournal /\ runs = 0
        BY DEF Init, Now, File, Active, RunPc
      <3>4. QED
        BY <3>1, <3>2, <3>3 DEF Promise!Init, Promise!Ids, Ids, Now, File, Left, Gone
    <2>6. QED
      BY <2>2, <2>3, <2>4, <2>5 DEF FileInv
  <1>2. FileInv /\ [Next]_vars => FileInv' /\ [Promise!Next]_(Promise!vars)
    BY FileNext DEF PromiseStep
  <1>3. QED
    BY <1>1, <1>2, PTL DEF Spec, KeepsPromise, Promise!Spec
=============================================================================
