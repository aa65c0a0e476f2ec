------------------------------ MODULE ScanRun -------------------------------
(***************************************************************************)
(* One scan transaction of riviu/scan_service.py and its run journal       *)
(* (riviu/scan_journal.py): the main pass, stall restarts, the cool-down   *)
(* and the two retry passes, the end of the run, a user cancel at any      *)
(* await, the death of the process at any point, and the resume the next   *)
(* process makes from the journal file.                                    *)
(*                                                                         *)
(* A journal write runs in a worker thread. Cancelling the coroutine that  *)
(* awaits it does not stop the thread: the write stays in flight and lands *)
(* later, or never if the process dies first. A server shutdown is a death *)
(* here: whatever it still saves before the process ends is a longer prefix*)
(* of the same run.                                                        *)
(***************************************************************************)
EXTENDS Naturals

CONSTANTS
    Rows,        \* the rows of the scanned sheet
    Codes,       \* result codes a row can get: "s" stands for s, h and e, "r" for r and l, "p"
    MaxResume,   \* MAX_RESUME_ATTEMPTS
    RetryFailed, \* the retry_failed option of the start payload
    SlowWrites,  \* an abandoned write may be overtaken by a later one
    DiskFails,   \* a journal write or removal may fail (it is logged and the scan goes on)
    MaxRuns,     \* bound: runs a user or a slot starts
    NoJournal

ASSUME RunAssumption ==
    /\ Codes \subseteq {"s", "r", "p"}
    /\ Codes # {}
    /\ MaxResume \in Nat
    /\ MaxRuns \in Nat
    /\ {RetryFailed, SlowWrites, DiskFails} \subseteq BOOLEAN
    /\ "-" \notin Codes

Ids == 1 .. MaxRuns

\* scan_journal.json. A row that is not in `rows` has code "-".
Journal == [id : Ids, code : [Rows -> Codes \cup {"-"}], retried : SUBSET Rows, attempts : Nat,
            mainDone : BOOLEAN, stopped : BOOLEAN, retrySkipped : BOOLEAN]

\* What ScanPromise sees of it.
Filed == [id : Ids, rows : SUBSET Rows]

ASSUME NoJournalAssumption == NoJournal \notin Journal \cup Filed

VARIABLES
    pc,       \* where the run, or the resume of the previous one, has got to
    pass,     \* the pass under way
    cause,    \* why the run is being unwound or closed
    mem,      \* RunJournal.data and .rows
    disk,     \* the journal file
    late,     \* abandoned writes still in a worker thread
    login,    \* a usable cookie session was found for the login-only rows
    runs,     \* runs started so far; the id of the last one
    saved,    \* id -> rows whose result of that run is in the workbook or the database
    again,    \* id -> rows whose retry result is
    restarts, \* id -> stall restarts and resumes so far
    ended,    \* id -> how the run ended
    tally     \* in this process, of the current run: [pass -> [row -> results saved]]

filed == <<disk, late>>
told == <<runs, restarts, ended>>
results == <<saved, again, tally>>
vars == <<pc, pass, cause, mem, disk, late, login, runs, saved, again, restarts, ended, tally>>

RunPc == {"created", "begin", "pass", "passWrite", "unwind", "unwindWrite", "stallWrite",
          "mark", "cooldown", "skipWrite", "closing", "clear"}
ResumePc == {"resume", "countWrite", "prepare", "giveUp"}

\* How a run can end: with its journal removed, or without.
Removed == {"completed", "stopped", "failed", "cancelled", "givenUp"}
Ending == Removed \cup {"no", "failedKept", "cancelledKept"}

Active == pc \in RunPc

Unscanned(id) ==
    [id |-> id, code |-> [r \in Rows |-> "-"], retried |-> {}, attempts |-> 0,
     mainDone |-> FALSE, stopped |-> FALSE, retrySkipped |-> FALSE]

\* The changes a run makes to its journal: a result, an attempt, the end of the main pass, a skip.
WithResults(j, codes, batch, p) ==
    [j EXCEPT !.code = [r \in Rows |-> IF r \in batch THEN codes[r] ELSE @[r]],
              !.retried = IF p = "main" THEN @ \ batch ELSE @ \cup batch]
WithAttempt(j) == [j EXCEPT !.attempts = @ + 1]
WithMainDone(j, stop) == [j EXCEPT !.mainDone = TRUE, !.stopped = stop]
WithSkip(j) == [j EXCEPT !.retrySkipped = TRUE]

NoTally == [p \in {"main", "retry"} |-> [r \in Rows |-> 0]]

JournalRows(j) == {r \in Rows : j.code[r] # "-"}
RetryCandidates(j) == {r \in Rows : j.code[r] = "r" /\ r \notin j.retried}
LoginCandidates(j) == {r \in Rows : j.code[r] = "p" /\ r \notin j.retried}

\* Mutant: a restarted main pass is given every row again.
TodoAll == IF pass = "main" THEN Rows ELSE RetryCandidates(mem)

\* The rows a pass is given: skip_rows of the main pass, only_rows of a retry pass.
Todo ==
    CASE pass = "main" -> Rows \ JournalRows(mem)
      [] pass = "retry" -> RetryCandidates(mem)
      [] pass = "login" -> LoginCandidates(mem)

Init ==
    /\ pc = "idle" /\ pass = "main" /\ cause = "none"
    /\ mem = NoJournal /\ disk = NoJournal /\ late = {}
    /\ login = FALSE
    /\ runs = 0
    /\ saved = [id \in Ids |-> {}]
    /\ again = [id \in Ids |-> {}]
    /\ restarts = [id \in Ids |-> 0]
    /\ ended = [id \in Ids |-> "no"]
    /\ tally = NoTally

-----------------------------------------------------------------------------
(* The journal file                                                        *)

\* A write of this run reaches the disk. Abandoned writes come first unless SlowWrites.
Settled == SlowWrites \/ late = {}

FileBecomes(j) ==
    /\ Settled
    /\ disk' = j \/ (DiskFails /\ disk' = disk)
    /\ UNCHANGED late

\* The coroutine awaiting a write of mem is cancelled; its thread goes on.
Abandon(j) == late' = late \cup {j} /\ UNCHANGED disk

LateWrite(j) ==
    /\ disk' = j
    /\ late' = late \ {j}
    /\ UNCHANGED <<pc, pass, cause, mem, login, told, results>>

-----------------------------------------------------------------------------
(* Start, and the resume of an interrupted run at server start             *)

\* A later start finds the writes of the earlier run landed.
FreshStart ==
    /\ pc = "idle" /\ runs < MaxRuns /\ late = {}
    /\ runs' = runs + 1
    /\ mem' = Unscanned(runs + 1)
    /\ tally' = NoTally
    /\ pc' = "created" /\ pass' = "main" /\ cause' = "none" /\ login' = FALSE
    /\ UNCHANGED <<filed, saved, again, restarts, ended>>

\* The process dies with everything it held; only server mode resumes at start.
Die ==
    /\ pc' \in {"idle", "resume"}
    /\ pass' = "main" /\ cause' = "none" /\ login' = FALSE
    /\ mem' = NoJournal
    /\ late' = {}
    /\ tally' = NoTally
    /\ UNCHANGED <<disk, told, saved, again>>

\* Mutant: a resume that forgets the rows of the journal.
ResumeLoadAnew ==
    /\ pc = "resume" /\ disk # NoJournal /\ ~disk.stopped /\ disk.attempts < MaxResume
    /\ pc' = "countWrite"
    /\ mem' = WithAttempt([disk EXCEPT !.code = [r \in Rows |-> "-"]])
    /\ UNCHANGED <<pass, cause, login, filed, told, results>>

ResumeLoad ==
    /\ pc = "resume"
    /\ \/ disk = NoJournal /\ pc' = "idle" /\ UNCHANGED mem
       \/ /\ disk # NoJournal
          /\ disk.stopped \/ disk.attempts >= MaxResume
          /\ pc' = "giveUp" /\ mem' = disk
       \/ /\ disk # NoJournal
          /\ ~disk.stopped /\ disk.attempts < MaxResume
          /\ pc' = "countWrite" /\ mem' = WithAttempt(disk)
    /\ UNCHANGED <<pass, cause, login, filed, told, results>>

\* Counted on disk before the run starts; a failed write propagates and nothing is resumed.
ResumeCount ==
    /\ pc = "countWrite"
    /\ \/ disk' = mem /\ pc' = "prepare"
       \/ DiskFails /\ disk' = disk /\ pc' = "idle"
    /\ UNCHANGED <<late, pass, cause, mem, login, told, results>>

ResumeStart ==
    /\ pc = "prepare"
    /\ pc' = "created"
    /\ restarts' = [restarts EXCEPT ![mem.id] = @ + 1]
    /\ UNCHANGED <<pass, cause, mem, login, filed, runs, ended, results>>

\* The start is refused: cookie, workbook, sheet or proxy route are not what they were.
ResumeRefused ==
    /\ pc = "prepare"
    /\ pc' = "giveUp"
    /\ UNCHANGED <<pass, cause, mem, login, filed, told, results>>

GiveUp ==
    /\ pc = "giveUp"
    /\ FileBecomes(NoJournal)
    /\ pc' = "idle"
    /\ ended' = [ended EXCEPT ![mem.id] = "givenUp"]
    /\ UNCHANGED <<pass, cause, mem, login, runs, restarts, results>>

-----------------------------------------------------------------------------
(* run_scraper_safely up to its first pass                                 *)

EndRun(how) == pc' = "idle" /\ ended' = [ended EXCEPT ![mem.id] = how]

\* find_data_sheet_names raised or no longer names the sheet: `journal` is still None.
SheetGone ==
    /\ pc = "created"
    /\ EndRun("failedKept")
    /\ UNCHANGED <<pass, cause, mem, login, filed, runs, restarts, results>>

BeginJournal ==
    /\ pc = "created"
    /\ pc' = "begin"
    /\ UNCHANGED <<pass, cause, mem, login, filed, told, results>>

\* Mutant: a run stopped by HTTP 429 goes on to the retry pass.
AllowedAfterStop == RetryFailed /\ ~mem.retrySkipped

(* run_scan_passes once the main pass is done: the retry pass or the end.  *)
Allowed == RetryFailed /\ ~mem.stopped /\ ~mem.retrySkipped

AfterMain ==
    \E usable \in BOOLEAN :
        LET loginRetry == Allowed /\ usable /\ LoginCandidates(mem) # {} IN
        /\ login' = loginRetry
        /\ pc' = IF (Allowed /\ RetryCandidates(mem) # {}) \/ loginRetry
                 THEN "cooldown" ELSE "closing"

BeginWritten ==
    /\ pc = "begin"
    /\ FileBecomes(mem)
    /\ IF mem.mainDone THEN AfterMain ELSE pc' = "pass" /\ UNCHANGED login
    /\ UNCHANGED <<pass, cause, mem, told, results>>

-----------------------------------------------------------------------------
(* A pass under its watchdog                                               *)

\* Mutant: the journal is told of a save that failed.
SaveFailed(batch, codes) ==
    /\ mem' = WithResults(mem, codes, batch, pass)
    /\ UNCHANGED results

\* The scanner saves a batch of results, then tells the journal about exactly those rows.
Save(batch, codes) ==
    LET kind == IF pass = "main" THEN "main" ELSE "retry" IN
    /\ saved' = [saved EXCEPT ![mem.id] = @ \cup batch]
    /\ again' = IF pass = "main" THEN again ELSE [again EXCEPT ![mem.id] = @ \cup batch]
    /\ mem' = WithResults(mem, codes, batch, pass)
    /\ tally' = [tally EXCEPT ![kind] = [r \in Rows |-> IF r \in batch THEN @[r] + 1 ELSE @[r]]]

SaveSome ==
    \E batch \in (SUBSET Todo) \ {{}} : \E codes \in [batch -> Codes] : Save(batch, codes)

PassSave ==
    /\ pc = "pass"
    /\ SaveSome
    /\ pc' = "passWrite"
    /\ UNCHANGED <<pass, cause, login, filed, told>>

PassWritten ==
    /\ pc = "passWrite"
    /\ FileBecomes(mem)
    /\ pc' = "pass"
    /\ UNCHANGED <<pass, cause, mem, login, told, results>>

\* Mutant: the main pass returns with rows still queued.
MainDoneEarly ==
    /\ pc = "pass" /\ pass = "main"
    /\ mem' = WithMainDone(mem, FALSE)
    /\ pc' = "mark"
    /\ UNCHANGED <<pass, cause, login, filed, told, results>>

\* The main pass ends with every row saved, or stops on HTTP 429 with what it has.
MainDone ==
    /\ pc = "pass" /\ pass = "main"
    /\ \E stop \in BOOLEAN :
          /\ stop \/ Todo = {}
          /\ mem' = WithMainDone(mem, stop)
    /\ pc' = "mark"
    /\ UNCHANGED <<pass, cause, login, filed, told, results>>

MarkWritten ==
    /\ pc = "mark"
    /\ FileBecomes(mem)
    /\ AfterMain
    /\ UNCHANGED <<pass, cause, mem, told, results>>

CooldownOver ==
    /\ pc = "cooldown"
    /\ pass' = IF RetryCandidates(mem) # {} THEN "retry" ELSE "login"
    /\ pc' = "pass"
    /\ UNCHANGED <<cause, mem, login, filed, told, results>>

SkipRetry ==
    /\ pc = "cooldown"
    /\ mem' = WithSkip(mem)
    /\ pc' = "skipWrite"
    /\ UNCHANGED <<pass, cause, login, filed, told, results>>

\* Mutant: a skip only starts the wait anew.
SkipWaits ==
    /\ pc = "skipWrite"
    /\ FileBecomes(mem)
    /\ pc' = "cooldown"
    /\ UNCHANGED <<pass, cause, mem, login, told, results>>

SkipWritten ==
    /\ pc = "skipWrite"
    /\ FileBecomes(mem)
    /\ pc' = "closing"
    /\ UNCHANGED <<pass, cause, mem, login, told, results>>

\* The transient rows are rescanned; the login-only rows follow unless a 429 stopped the pass.
RetryDone ==
    /\ pc = "pass" /\ pass = "retry"
    /\ \/ Todo = {} /\ login /\ pass' = "login" /\ UNCHANGED pc
       \/ Todo = {} /\ ~login /\ pc' = "closing" /\ UNCHANGED pass
       \/ pc' = "closing" /\ UNCHANGED pass     \* stopReason
    /\ UNCHANGED <<cause, mem, login, filed, told, results>>

\* Done, stopped, or the session was refused: the main pass results stay either way.
LoginDone ==
    /\ pc = "pass" /\ pass = "login"
    /\ pc' = "closing"
    /\ UNCHANGED <<pass, cause, mem, login, filed, told, results>>

\* The watchdog cancels the pass, or the pass raises; the scanner saves what it has first.
PassBreaks(why) ==
    /\ pc = "pass"
    /\ pc' = "unwind"
    /\ cause' = why
    /\ UNCHANGED <<pass, mem, login, filed, told, results>>

UnwindSave ==
    /\ pc = "unwind"
    /\ SaveSome
    /\ pc' = "unwindWrite"
    /\ UNCHANGED <<pass, cause, login, filed, told>>

\* handle_stall counts the restart; any other cause closes the run.
AfterUnwind ==
    IF cause = "stall"
    THEN mem' = WithAttempt(mem) /\ pc' = "stallWrite"
    ELSE UNCHANGED mem /\ pc' = "clear"

UnwindWritten ==
    /\ pc = "unwindWrite"
    /\ FileBecomes(mem)
    /\ AfterUnwind
    /\ UNCHANGED <<pass, cause, login, told, results>>

UnwindNothing ==
    /\ pc = "unwind"
    /\ AfterUnwind
    /\ UNCHANGED <<pass, cause, login, filed, told, results>>

\* The last save failed: its error replaces the cancellation (the task stays `cancelling`).
UnwindFails ==
    /\ pc = "unwind"
    /\ cause' = IF cause = "user" THEN "userFailed" ELSE "failed"
    /\ pc' = "clear"
    /\ UNCHANGED <<pass, mem, login, filed, told, results>>

\* Mutant: one restart too many.
StallOneMore ==
    /\ pc = "stallWrite"
    /\ FileBecomes(mem)
    /\ IF mem.attempts > MaxResume + 1
       THEN pc' = "clear" /\ cause' = "failed" /\ UNCHANGED restarts
       ELSE pc' = "pass" /\ cause' = "none" /\ restarts' = [restarts EXCEPT ![mem.id] = @ + 1]
    /\ UNCHANGED <<pass, mem, login, runs, ended, results>>

StallWritten ==
    /\ pc = "stallWrite"
    /\ FileBecomes(mem)
    /\ IF mem.attempts > MaxResume
       THEN pc' = "clear" /\ cause' = "failed" /\ UNCHANGED restarts
       ELSE pc' = "pass" /\ cause' = "none" /\ restarts' = [restarts EXCEPT ![mem.id] = @ + 1]
    /\ UNCHANGED <<pass, mem, login, runs, ended, results>>

-----------------------------------------------------------------------------
(* The end of the run                                                      *)

\* The passes are over: the Google push or the end of the scan_run row, then journal.clear.
Close ==
    /\ pc = "closing"
    /\ pc' = "clear" /\ cause' = "completed"
    /\ UNCHANGED <<pass, mem, login, filed, told, results>>

CloseFails ==
    /\ pc = "closing"
    /\ pc' = "clear" /\ cause' = "failed"
    /\ UNCHANGED <<pass, mem, login, filed, told, results>>

Outcome ==
    CASE cause = "completed" -> IF mem.stopped THEN "stopped" ELSE "completed"
      [] cause = "user" -> "cancelled"
      [] OTHER -> "failed"

Cleared ==
    /\ pc = "clear"
    /\ FileBecomes(NoJournal)
    /\ EndRun(Outcome)
    /\ UNCHANGED <<pass, cause, mem, login, runs, restarts, results>>

(* user_cancel_scan: one cancellation, delivered at the await the run is   *)
(* in. Before begin_journal returns `journal` is None and nothing is       *)
(* cleared; while a failed run is being cleared, no handler is left.       *)
CancelUnjournaled ==
    /\ \/ pc = "created" /\ UNCHANGED filed
       \/ pc = "begin" /\ Abandon(mem)
       \/ pc = "clear" /\ cause = "failed" /\ Abandon(NoJournal)
    /\ EndRun("cancelledKept")
    /\ UNCHANGED <<pass, cause, mem, login, runs, restarts, results>>

CancelPass ==
    /\ \/ pc \in {"pass", "unwind"} /\ pc' = "unwind" /\ UNCHANGED filed
       \/ pc = "passWrite" /\ pc' = "unwind" /\ Abandon(mem)
       \/ pc = "unwindWrite" /\ UNCHANGED <<pc, filed>>
    /\ cause # "user"
    /\ cause' = "user"
    /\ UNCHANGED <<pass, mem, login, told, results>>

CancelOutsidePass ==
    /\ \/ pc \in {"stallWrite", "mark", "skipWrite"} /\ Abandon(mem)
       \/ pc \in {"cooldown", "closing"} /\ UNCHANGED filed
       \/ pc = "clear" /\ cause = "completed" /\ Abandon(NoJournal)
    /\ pc' = "clear" /\ cause' = "user"
    /\ UNCHANGED <<pass, mem, login, told, results>>

UserCancel == CancelUnjournaled \/ CancelPass \/ CancelOutsidePass

-----------------------------------------------------------------------------

ResumeStep == ResumeLoad \/ ResumeCount \/ ResumeStart \/ ResumeRefused \/ GiveUp

PassStep ==
    \/ PassSave \/ PassWritten \/ MainDone \/ RetryDone \/ LoginDone
    \/ \E why \in {"stall", "failed"} : PassBreaks(why)

RunStep ==
    \/ SheetGone \/ BeginJournal \/ BeginWritten \/ PassStep
    \/ UnwindSave \/ UnwindWritten \/ UnwindNothing \/ UnwindFails \/ StallWritten
    \/ MarkWritten \/ CooldownOver \/ SkipRetry \/ SkipWritten
    \/ Close \/ CloseFails \/ Cleared

Next ==
    \/ FreshStart \/ ResumeStep \/ RunStep \/ UserCancel \/ Die
    \/ \E j \in late : LateWrite(j)

Spec == Init /\ [][Next]_vars

\* The event loop resumes the run after every await, threads finish their writes, and the
\* watchdog ends a pass that has no result for STALL_SECONDS.
Fairness ==
    /\ WF_vars(ResumeStep)
    /\ WF_vars(RunStep)
    /\ WF_vars(\E j \in late : LateWrite(j))

FairSpec == Spec /\ Fairness

-----------------------------------------------------------------------------

TypeOK ==
    /\ pc \in {"idle"} \cup RunPc \cup ResumePc
    /\ pass \in {"main", "retry", "login"}
    /\ cause \in {"none", "stall", "failed", "completed", "user", "userFailed"}
    /\ mem \in Journal \cup {NoJournal}
    /\ disk \in Journal \cup {NoJournal}
    /\ late \subseteq Journal \cup {NoJournal}
    /\ login \in BOOLEAN
    /\ runs \in 0 .. MaxRuns
    /\ saved \in [Ids -> SUBSET Rows]
    /\ again \in [Ids -> SUBSET Rows]
    /\ restarts \in [Ids -> Nat]
    /\ ended \in [Ids -> Ending]
    /\ tally \in [{"main", "retry"} -> [Rows -> Nat]]

\* A journal tells the truth: "a row enters rows only after the workbook save that wrote it
\* succeeded", and a row is marked retried only after a retry result was saved.
Honest(j) ==
    j # NoJournal => JournalRows(j) \subseteq saved[j.id] /\ j.retried \subseteq again[j.id]

\* The journal file never names a row whose result is not saved, whatever was lost, cancelled
\* or overtaken: so a resumed run never skips a row it has no result for.
JournalNeverAhead == Honest(disk)

\* A run that completed (and was not stopped by HTTP 429) has a saved result for every row,
\* across stall restarts and resumes.
CompletedCoversAll == \A id \in Ids : ended[id] = "completed" => saved[id] = Rows

\* In one process no row is scanned twice by the main pass nor by the retry passes, stall
\* restarts included.
ScannedOnce == \A p \in {"main", "retry"} : \A r \in Rows : tally[p][r] <= 1

\* Every row is scanned, and none is scanned over again.
RowsScannedOnce == CompletedCoversAll /\ ScannedOnce

\* "Stall restarts and process-restart resumes together; a crash loop cannot rescan forever."
RestartsCapped == \A id \in Ids : restarts[id] <= MaxResume

\* A run whose end removed its journal leaves no file behind to resume.
EndedIsFinal ==
    \A id \in Ids : ended[id] \in Removed =>
        (disk # NoJournal => disk.id # id) /\ (Active => mem.id # id)

\* A row the journal file names is never scanned by a main pass again, whichever process runs it.
NeverRescanned ==
    [][\A r \in Rows :
        Active /\ disk # NoJournal /\ disk.id = mem.id /\ disk.code[r] # "-"
            => tally'["main"][r] \in {0, tally["main"][r]}]_vars

\* Once the file says the run was stopped by HTTP 429, no pass of that run saves another row.
StopIsFinal ==
    [][disk # NoJournal /\ disk.stopped => saved'[disk.id] = saved[disk.id] /\ again'[disk.id] = again[disk.id]]_vars

\* What the file says is done, or over, every later pass respects, restarts and resumes included.
JournalRespected == NeverRescanned /\ StopIsFinal

\* Every run ends: a pass that hangs is restarted at most MaxResume times.
RunEnds == []<>~Active

\* "The journal is removed when the run ends normally, fails, or is cancelled by the user": a run
\* that ended in any of these ways is not continued.
EndRemovesJournal ==
    \A id \in Ids : ended[id] # "no" => ~(Active /\ mem.id = id)

-----------------------------------------------------------------------------
(* The inductive strengthening of JournalNeverAhead: memory and the writes *)
(* in flight tell the truth as well.                                       *)

HasJournal == Active \/ pc \in {"countWrite", "prepare", "giveUp"}

HonestInv ==
    /\ TypeOK
    /\ HasJournal => mem # NoJournal
    /\ Honest(disk) /\ Honest(mem)
    /\ \A j \in late : Honest(j)

(* The strengthening of RestartsCapped: every copy of a journal has        *)
(* counted the restarts of its run, and a copy with an older count is not  *)
(* written any more once the run goes on.                                  *)

Counted(j) == j # NoJournal => restarts[j.id] <= j.attempts /\ j.id <= runs

CapInv ==
    /\ TypeOK
    /\ HasJournal => mem # NoJournal
    /\ RestartsCapped
    /\ \A id \in Ids : id > runs => restarts[id] = 0
    /\ Counted(disk) /\ Counted(mem)
    /\ \A j \in late : Counted(j)
    /\ late # {} => \/ pc = "idle"
                    \/ pc \in {"unwind", "unwindWrite"} /\ cause = "user"
                    \/ pc = "clear" /\ cause \in {"user", "userFailed"}
    /\ pc = "stallWrite" => cause = "stall" /\ restarts[mem.id] < mem.attempts
    /\ pc \in {"countWrite", "prepare"} =>
           restarts[mem.id] < mem.attempts /\ mem.attempts <= MaxResume
    /\ pc = "prepare" => disk = mem

-----------------------------------------------------------------------------
(* The abstract promise this run keeps.                                    *)

Promise == INSTANCE ScanPromise WITH
    now <- IF Active THEN mem.id ELSE 0,
    last <- runs,
    file <- IF disk = NoJournal THEN NoJournal ELSE [id |-> disk.id, rows |-> JournalRows(disk)],
    left <- [id \in Ids |-> MaxResume - restarts[id]],
    over <- {id \in Ids : ended[id] \in Removed}

\* The journal protocol implements ScanPromise, as long as file operations take effect in order.
KeepsPromise == Promise!Spec
=============================================================================
