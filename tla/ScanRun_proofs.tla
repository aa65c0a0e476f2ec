--------------------------- MODULE ScanRun_proofs ---------------------------
(***************************************************************************)
(* Proofs about ScanRun, for every set of rows, every cap and every number *)
(* of runs.                                                                *)
(***************************************************************************)
EXTENDS ScanRun, TLAPS

\* The part of the state every proof needs: the types, and a journal wherever one is used.
Typed == TypeOK /\ (HasJournal => mem # NoJournal)

\* A fresh journal is a journal.
LEMMA UnscannedTyping ==
    \A id \in Ids :
        Unscanned(id) \in Journal /\ Unscanned(id).id = id /\ Unscanned(id).attempts = 0
  BY RunAssumption DEF Unscanned, Journal

\* A journal stays one, of the same run, when a save, a count or a mark changes its fields.
LEMMA JournalTyping ==
    ASSUME NEW j \in Journal
    PROVE  /\ j # NoJournal /\ j.id \in Ids /\ j.attempts \in Nat
           /\ j.retried \subseteq Rows /\ j.code \in [Rows -> Codes \cup {"-"}]
           /\ WithAttempt(j) \in Journal /\ WithSkip(j) \in Journal
           /\ \A stop \in BOOLEAN : WithMainDone(j, stop) \in Journal
  <1>1. j # NoJournal
    BY NoJournalAssumption
  <1>2. /\ j.id \in Ids /\ j.attempts \in Nat
        /\ j.retried \subseteq Rows /\ j.code \in [Rows -> Codes \cup {"-"}]
    BY DEF Journal
  <1>3. WithAttempt(j) \in Journal
    BY DEF Journal, WithAttempt
  <1>4. WithSkip(j) \in Journal
    BY DEF Journal, WithSkip
  <1>5. ASSUME NEW stop \in BOOLEAN
        PROVE  WithMainDone(j, stop) \in Journal
    BY DEF Journal, WithMainDone
  <1>6. QED
    BY <1>1, <1>2, <1>3, <1>4, <1>5

\* What a save does to the journal in memory and to the results.
LEMMA SaveTyping ==
    ASSUME Typed, HasJournal, NEW batch \in SUBSET Rows, NEW codes \in [batch -> Codes],
           Save(batch, codes)
    PROVE  /\ mem' \in Journal /\ mem'.id = mem.id /\ mem'.attempts = mem.attempts
           /\ mem'.mainDone = mem.mainDone /\ mem'.stopped = mem.stopped
           /\ mem'.retried = (IF pass = "main" THEN mem.retried \ batch ELSE mem.retried \cup batch)
           /\ JournalRows(mem') = JournalRows(mem) \cup batch
           /\ saved' \in [Ids -> SUBSET Rows] /\ again' \in [Ids -> SUBSET Rows]
           /\ tally' \in [{"main", "retry"} -> [Rows -> Nat]]
  <1> DEFINE c == [r \in Rows |-> IF r \in batch THEN codes[r] ELSE mem.code[r]]
             q == IF pass = "main" THEN mem.retried \ batch ELSE mem.retried \cup batch
  <1>1. mem \in Journal
    BY DEF Typed, TypeOK
  <1>2. c \in [Rows -> Codes \cup {"-"}] /\ q \in SUBSET Rows
    BY <1>1 DEF Journal
  <1>3. mem' = [mem EXCEPT !.code = c, !.retried = q]
    BY DEF Save, WithResults
  <1>4. mem' \in Journal /\ mem'.id = mem.id /\ mem'.attempts = mem.attempts
        /\ mem'.mainDone = mem.mainDone /\ mem'.stopped = mem.stopped
        /\ mem'.retried = q /\ mem'.code = c
    <2> HIDE DEF c, q
    <2> QED
      BY <1>1, <1>2, <1>3 DEF Journal
  <1>5. JournalRows(mem') = JournalRows(mem) \cup batch
    BY <1>4, RunAssumption DEF JournalRows
  <1>6. saved' \in [Ids -> SUBSET Rows] /\ again' \in [Ids -> SUBSET Rows]
    BY <1>1, JournalTyping DEF Save, Typed, TypeOK
  <1>7. tally' \in [{"main", "retry"} -> [Rows -> Nat]]
    BY DEF Save, Typed, TypeOK
  <1>8. QED
    BY <1>4, <1>5, <1>6, <1>7

\* A pass is only given rows of the sheet.
LEMMA TodoRows == ASSUME Typed PROVE Todo \subseteq Rows
  BY DEF Todo, RetryCandidates, LoginCandidates, JournalRows, Typed, TypeOK

\* A save of a pass: some rows it was given, each with some result.
LEMMA SomeSaved ==
    ASSUME Typed, SaveSome
    PROVE  \E batch \in SUBSET Rows : \E codes \in [batch -> Codes] : Save(batch, codes)
  BY TodoRows DEF SaveSome

\* A save of any batch keeps the types.
LEMMA SaveSomeTyping ==
    ASSUME Typed, HasJournal, SaveSome
    PROVE  /\ mem' \in Journal
           /\ saved' \in [Ids -> SUBSET Rows] /\ again' \in [Ids -> SUBSET Rows]
           /\ tally' \in [{"main", "retry"} -> [Rows -> Nat]]
  BY SomeSaved, SaveTyping

\* Nothing is saved or filed at the start.
LEMMA TypeInit == Init => Typed
  <1> SUFFICES ASSUME Init PROVE Typed
    OBVIOUS
  <1>1. tally \in [{"main", "retry"} -> [Rows -> Nat]]
    BY DEF Init, NoTally
  <1>2. saved \in [Ids -> SUBSET Rows] /\ again \in [Ids -> SUBSET Rows]
        /\ restarts \in [Ids -> Nat] /\ ended \in [Ids -> Ending] /\ runs \in 0 .. MaxRuns
    BY RunAssumption DEF Init, Ending
  <1>3. QED
    BY <1>1, <1>2 DEF Init, Typed, TypeOK, HasJournal, Active, RunPc

\* Starts and resumes keep the types.
LEMMA StartTyping ==
    ASSUME Typed, FreshStart \/ Die \/ ResumeStep \/ (\E j \in late : LateWrite(j))
    PROVE  Typed'
  <1> USE DEF Typed, HasJournal, Active, RunPc
  <1>0. NoTally \in [{"main", "retry"} -> [Rows -> Nat]]
    BY DEF NoTally
  <1>1. CASE FreshStart
    <2>1. runs + 1 \in Ids
      BY <1>1, RunAssumption DEF FreshStart, TypeOK, Ids
    <2>2. mem' \in Journal /\ mem' # NoJournal
      BY <1>1, <2>1, UnscannedTyping, JournalTyping DEF FreshStart
    <2>3. runs' \in 0 .. MaxRuns
      BY <1>1, <2>1 DEF FreshStart, Ids
    <2>4. QED
      BY <1>0, <1>1, <2>2, <2>3 DEF FreshStart, TypeOK, filed
  <1>2. CASE Die
    BY <1>0, <1>2 DEF Die, TypeOK, told, ResumePc
  <1>3. CASE ResumeLoad
    BY <1>3, JournalTyping DEF ResumeLoad, TypeOK, ResumePc, filed, told, results
  <1>4. CASE ResumeCount \/ ResumeRefused
    BY <1>4 DEF ResumeCount, ResumeRefused, TypeOK, ResumePc, filed, told, results
  <1>5. CASE ResumeStart
    BY <1>5, JournalTyping DEF ResumeStart, TypeOK, filed, results
  <1>6. CASE GiveUp
    BY <1>6, JournalTyping DEF GiveUp, FileBecomes, TypeOK, results, Ending, Removed
  <1>7. CASE \E j \in late : LateWrite(j)
    BY <1>7 DEF LateWrite, TypeOK, told, results
  <1>8. QED
    BY <1>1, <1>2, <1>3, <1>4, <1>5, <1>6, <1>7 DEF ResumeStep

\* The two steps that save results: in a pass, and while it is unwound.
LEMMA SavingTyping == ASSUME Typed, PassSave \/ UnwindSave PROVE Typed'
  <1>1. HasJournal /\ SaveSome
    BY DEF PassSave, UnwindSave, HasJournal, Active, RunPc
  <1>2. /\ mem' \in Journal
        /\ saved' \in [Ids -> SUBSET Rows] /\ again' \in [Ids -> SUBSET Rows]
        /\ tally' \in [{"main", "retry"} -> [Rows -> Nat]]
    BY <1>1, SaveSomeTyping
  <1>3. mem' # NoJournal
    BY <1>2, JournalTyping
  <1>4. QED
    BY <1>2, <1>3 DEF PassSave, UnwindSave, Typed, TypeOK, filed, told, RunPc

\* A pass keeps the types.
LEMMA PassTyping == ASSUME Typed, PassStep PROVE Typed'
  <1>1. CASE PassSave
    BY <1>1, SavingTyping
  <1> USE DEF Typed, HasJournal, Active, RunPc
  <1>2. CASE PassWritten
    BY <1>2 DEF PassWritten, FileBecomes, TypeOK, told, results
  <1>3. CASE MainDone
    BY <1>3, JournalTyping DEF MainDone, TypeOK, filed, told, results
  <1>4. CASE RetryDone \/ LoginDone
    BY <1>4 DEF RetryDone, LoginDone, TypeOK, filed, told, results
  <1>5. CASE \E why \in {"stall", "failed"} : PassBreaks(why)
    BY <1>5 DEF PassBreaks, TypeOK, filed, told, results
  <1>6. QED
    BY <1>1, <1>2, <1>3, <1>4, <1>5 DEF PassStep

\* A step of the run keeps the types.
LEMMA RunTyping == ASSUME Typed, RunStep PROVE Typed'
  <1>3. CASE PassStep
    BY <1>3, PassTyping
  <1>4. CASE UnwindSave
    BY <1>4, SavingTyping
  <1> USE DEF Typed, HasJournal, Active, RunPc
  <1>1. CASE SheetGone \/ BeginJournal
    BY <1>1, JournalTyping
       DEF SheetGone, BeginJournal, EndRun, TypeOK, filed, told, results, Ending
  <1>2. CASE BeginWritten \/ MarkWritten
    BY <1>2 DEF BeginWritten, MarkWritten, AfterMain, Allowed, FileBecomes, TypeOK, told, results
  <1>5. CASE UnwindWritten \/ UnwindNothing
    BY <1>5, JournalTyping
       DEF UnwindWritten, UnwindNothing, AfterUnwind, FileBecomes, TypeOK, filed, told, results
  <1>6. CASE UnwindFails
    BY <1>6 DEF UnwindFails, TypeOK, filed, told, results
  <1>7. CASE StallWritten
    BY <1>7, JournalTyping DEF StallWritten, FileBecomes, TypeOK, results
  <1>8. CASE CooldownOver \/ SkipRetry \/ SkipWritten
    BY <1>8, JournalTyping
       DEF CooldownOver, SkipRetry, SkipWritten, FileBecomes, TypeOK, filed, told, results
  <1>9. CASE Close \/ CloseFails \/ Cleared
    BY <1>9, JournalTyping
       DEF Close, CloseFails, Cleared, EndRun, Outcome, FileBecomes, TypeOK, filed, told, results,
           Ending, Removed
  <1>10. QED
    BY <1>1, <1>2, <1>3, <1>4, <1>5, <1>6, <1>7, <1>8, <1>9 DEF RunStep

\* A user cancel keeps the types.
LEMMA CancelTyping == ASSUME Typed, UserCancel PROVE Typed'
  <1> USE DEF Typed, HasJournal, Active, RunPc, Abandon
  <1>1. CASE CancelUnjournaled
    BY <1>1, JournalTyping DEF CancelUnjournaled, EndRun, TypeOK, filed, results, Ending
  <1>2. CASE CancelPass
    BY <1>2 DEF CancelPass, TypeOK, filed, told, results
  <1>3. CASE CancelOutsidePass
    BY <1>3 DEF CancelOutsidePass, TypeOK, filed, told, results
  <1>4. QED
    BY <1>1, <1>2, <1>3 DEF UserCancel

\* Every step keeps the types.
LEMMA TypeNext == Typed /\ [Next]_vars => Typed'
  <1> SUFFICES ASSUME Typed, [Next]_vars PROVE Typed'
    OBVIOUS
  <1>1. CASE UNCHANGED vars
    BY <1>1 DEF Typed, TypeOK, HasJournal, Active, vars
  <1>2. CASE Next
    BY <1>2, StartTyping, RunTyping, CancelTyping DEF Next
  <1>3. QED
    BY <1>1, <1>2

\* Every variable of a scan transaction keeps its type.
THEOREM RunTypeCorrect == Spec => []TypeOK
  <1>1. Typed => TypeOK
    BY DEF Typed
  <1>2. QED
    BY <1>1, TypeInit, TypeNext, PTL DEF Spec

-----------------------------------------------------------------------------
(* The journal never runs ahead of the saved results.                      *)

\* j names only rows of s, and marks as retried only rows of a.
HonestFor(j, s, a) ==
    j # NoJournal => JournalRows(j) \subseteq s[j.id] /\ j.retried \subseteq a[j.id]

\* Counting an attempt or marking a phase changes no row of a journal.
LEMMA SameRows ==
    ASSUME NEW j \in Journal, NEW stop \in BOOLEAN,
           NEW k, k \in {WithAttempt(j), WithSkip(j), WithMainDone(j, stop)}
    PROVE  /\ k.id = j.id /\ JournalRows(k) = JournalRows(j) /\ k.retried = j.retried
           /\ IF k = WithMainDone(j, stop) THEN k.mainDone /\ k.stopped = stop
              ELSE k.mainDone = j.mainDone /\ k.stopped = j.stopped
  <1>1. CASE k = WithMainDone(j, stop)
    BY <1>1 DEF WithMainDone, Journal, JournalRows
  <1>2. CASE k # WithMainDone(j, stop) /\ k = WithAttempt(j)
    BY <1>2 DEF WithAttempt, Journal, JournalRows
  <1>3. CASE k # WithMainDone(j, stop) /\ k = WithSkip(j)
    BY <1>3 DEF WithSkip, Journal, JournalRows
  <1>4. QED
    BY <1>1, <1>2, <1>3

\* Where a step that saves no result can take the file, its pending writes and the memory.
Moves ==
    /\ UNCHANGED <<saved, again>>
    /\ disk' \in late \cup {disk, mem, NoJournal}
    /\ late' \subseteq late \cup {mem, NoJournal}
    /\ \/ mem' \in {mem, disk, NoJournal}
       \/ \E id \in Ids : mem' = Unscanned(id)
       \/ \E j \in Journal \cap {mem, disk} : mem' \in {WithAttempt(j), WithSkip(j)}
       \/ /\ mem \in Journal
          /\ \E stop \in BOOLEAN : (stop \/ JournalRows(mem) = Rows) /\ mem' = WithMainDone(mem, stop)

\* A step that only moves copies of journals keeps every copy honest.
LEMMA MovesHonest == ASSUME HonestInv, Typed', Moves PROVE HonestInv'
  <1> DEFINE H(j) == HonestFor(j, saved, again)
  <1>1. H(disk) /\ H(mem) /\ (\A j \in late : H(j)) /\ H(NoJournal)
    BY DEF HonestInv, Honest, HonestFor
  <1>2. ASSUME NEW id \in Ids PROVE H(Unscanned(id))
    BY DEF HonestFor, Unscanned, JournalRows
  <1>3. ASSUME NEW j \in Journal \cap {mem, disk}, NEW stop \in BOOLEAN,
               NEW k, k \in {WithAttempt(j), WithSkip(j), WithMainDone(j, stop)}
        PROVE  H(k)
    <2>1. H(j) /\ j # NoJournal
      BY <1>1, JournalTyping
    <2>2. k.id = j.id /\ JournalRows(k) = JournalRows(j) /\ k.retried = j.retried
      BY <1>3, SameRows
    <2>3. QED
      BY <2>1, <2>2 DEF HonestFor
  <1>4. H(disk') /\ H(mem') /\ \A j \in late' : H(j)
    <2> HIDE DEF H
    <2> QED
      BY <1>1, <1>2, <1>3 DEF Moves
  <1>5. Honest(disk)' /\ Honest(mem)' /\ \A j \in late' : HonestFor(j, saved', again')
    BY <1>4 DEF Moves, Honest, HonestFor
  <1>6. QED
    BY <1>5 DEF HonestInv, Typed, Honest, HonestFor

\* A save adds the same rows to the results and to the journal in memory.
LEMMA SaveHonest ==
    ASSUME HonestInv, Typed', PassSave \/ UnwindSave
    PROVE  HonestInv'
  <1>1. Typed /\ HasJournal /\ SaveSome /\ UNCHANGED filed
    BY DEF HonestInv, Typed, PassSave, UnwindSave, HasJournal, Active, RunPc
  <1>2. PICK batch \in SUBSET Rows : \E codes \in [batch -> Codes] : Save(batch, codes)
    BY <1>1, SomeSaved
  <1> PICK codes \in [batch -> Codes] : Save(batch, codes)
    BY <1>2
  <1>3. mem \in Journal /\ mem.id \in Ids
    BY <1>1, JournalTyping DEF Typed, TypeOK
  <1>4. /\ saved' = [saved EXCEPT ![mem.id] = @ \cup batch]
        /\ again' = IF pass = "main" THEN again ELSE [again EXCEPT ![mem.id] = @ \cup batch]
    BY DEF Save
  <1>5. saved \in [Ids -> SUBSET Rows] /\ again \in [Ids -> SUBSET Rows]
    BY <1>1 DEF Typed, TypeOK
  <1>6. /\ mem'.id = mem.id
        /\ mem'.retried \subseteq (IF pass = "main" THEN mem.retried ELSE mem.retried \cup batch)
        /\ JournalRows(mem') = JournalRows(mem) \cup batch
    BY <1>1, SaveTyping
  <1>7. \A id \in Ids : saved[id] \subseteq saved'[id] /\ again[id] \subseteq again'[id]
    BY <1>3, <1>4, <1>5
  <1>8. HonestFor(mem', saved', again')
    BY <1>1, <1>3, <1>4, <1>5, <1>6 DEF HonestInv, Honest, HonestFor, HasJournal
  <1>9. ASSUME NEW j \in late \cup {disk} PROVE HonestFor(j, saved', again')
    <2>1. j # NoJournal => j.id \in Ids
      BY <1>1, JournalTyping DEF Typed, TypeOK
    <2>2. HonestFor(j, saved, again)
      BY DEF HonestInv, Honest, HonestFor
    <2>3. QED
      BY <1>7, <2>1, <2>2 DEF HonestFor
  <1>10. QED
    BY <1>1, <1>8, <1>9 DEF HonestInv, Typed, Honest, HonestFor, filed

\* Starts and resumes only move copies.
LEMMA StartMoves ==
    ASSUME Typed, FreshStart \/ Die \/ ResumeStep \/ (\E j \in late : LateWrite(j))
    PROVE  Moves
  <1> USE DEF Moves
  <1>1. CASE FreshStart
    <2>1. runs + 1 \in Ids
      BY <1>1, RunAssumption DEF FreshStart, Typed, TypeOK, Ids
    <2>2. QED
      BY <1>1, <2>1 DEF FreshStart, filed
  <1>2. CASE Die
    BY <1>2 DEF Die
  <1>3. CASE ResumeLoad
    <2>1. disk # NoJournal => disk \in Journal
      BY DEF Typed, TypeOK
    <2>2. QED
      BY <1>3, <2>1 DEF ResumeLoad, filed, results
  <1>4. CASE ResumeCount \/ ResumeRefused \/ ResumeStart \/ GiveUp
    BY <1>4 DEF ResumeCount, ResumeRefused, ResumeStart, GiveUp, FileBecomes, filed, results
  <1>5. CASE \E j \in late : LateWrite(j)
    BY <1>5 DEF LateWrite, results
  <1>6. QED
    BY <1>1, <1>2, <1>3, <1>4, <1>5 DEF ResumeStep

\* So do the steps of a run that save no results.
LEMMA RunMoves == ASSUME Typed, RunStep, ~PassSave, ~UnwindSave PROVE Moves
  <1>1. Active /\ mem \in Journal
    BY DEF RunStep, PassStep, SheetGone, BeginJournal, BeginWritten, PassWritten, MainDone, RetryDone,
           LoginDone, PassBreaks, UnwindWritten, UnwindNothing, UnwindFails, StallWritten,
           MarkWritten, CooldownOver, SkipRetry, SkipWritten, Close, CloseFails, Cleared,
           Active, RunPc, Typed, TypeOK, HasJournal
  <1> USE DEF Moves
  <1>2. CASE SheetGone \/ BeginJournal \/ BeginWritten
    BY <1>2 DEF SheetGone, BeginJournal, BeginWritten, FileBecomes, filed, results
  <1>8. CASE MainDone
    <2>1. PICK stop \in BOOLEAN : (stop \/ Todo = {}) /\ mem' = WithMainDone(mem, stop)
      BY <1>8 DEF MainDone
    <2>2. Todo = Rows \ JournalRows(mem) /\ JournalRows(mem) \subseteq Rows
      BY <1>8 DEF MainDone, Todo, JournalRows
    <2>3. stop \/ JournalRows(mem) = Rows
      BY <2>1, <2>2
    <2>4. UNCHANGED <<disk, late, saved, again>>
      BY <1>8 DEF MainDone, filed, results
    <2>5. QED
      BY <1>1, <2>1, <2>3, <2>4
  <1>3. CASE PassStep /\ ~MainDone
    BY <1>1, <1>3 DEF PassStep, PassWritten, RetryDone, LoginDone, PassBreaks, FileBecomes, filed, results
  <1>4. CASE UnwindWritten \/ UnwindNothing \/ UnwindFails \/ StallWritten
    BY <1>1, <1>4 DEF UnwindWritten, UnwindNothing, UnwindFails, AfterUnwind, StallWritten,
                FileBecomes, filed, results
  <1>5. CASE MarkWritten \/ CooldownOver \/ SkipRetry \/ SkipWritten
    BY <1>1, <1>5 DEF MarkWritten, CooldownOver, SkipRetry, SkipWritten, FileBecomes, filed, results
  <1>6. CASE Close \/ CloseFails \/ Cleared
    BY <1>6 DEF Close, CloseFails, Cleared, FileBecomes, filed, results
  <1>7. QED
    BY <1>2, <1>3, <1>4, <1>5, <1>6, <1>8 DEF RunStep

\* So does a user cancel.
LEMMA CancelMoves == ASSUME UserCancel PROVE Moves
  BY DEF UserCancel, CancelUnjournaled, CancelPass, CancelOutsidePass, Abandon, Moves, filed, results

\* Every step keeps every copy of a journal honest.
LEMMA HonestNext == HonestInv /\ [Next]_vars => HonestInv'
  <1> SUFFICES ASSUME HonestInv, [Next]_vars PROVE HonestInv'
    OBVIOUS
  <1>1. Typed
    BY DEF HonestInv, Typed
  <1>2. Typed'
    BY <1>1, TypeNext
  <1>3. CASE UNCHANGED vars
    BY <1>2, <1>3, MovesHonest DEF Moves, vars
  <1>4. CASE PassSave \/ UnwindSave
    BY <1>2, <1>4, SaveHonest
  <1>5. CASE Next /\ ~PassSave /\ ~UnwindSave
    BY <1>1, <1>2, <1>5, StartMoves, RunMoves, CancelMoves, MovesHonest DEF Next
  <1>6. QED
    BY <1>3, <1>4, <1>5

\* Whatever write is lost, late or failed, and whenever the process dies or the user cancels,
\* the journal file names only rows whose result is saved.
THEOREM NeverAhead == Spec => []JournalNeverAhead
  <1>1. Init => HonestInv
    BY TypeInit DEF Init, HonestInv, Typed, Honest
  <1>2. HonestInv => JournalNeverAhead
    BY DEF HonestInv, JournalNeverAhead
  <1>3. QED
    BY <1>1, <1>2, HonestNext, PTL DEF Spec

-----------------------------------------------------------------------------
(* Restarts are capped.                                                    *)

\* j has counted every restart in rs.
CountedFor(j, rs) == j # NoJournal => rs[j.id] <= j.attempts /\ j.id <= runs

\* Marking keeps the count of a journal, counting raises it by one.
LEMMA SameCount ==
    ASSUME NEW j \in Journal, NEW stop \in BOOLEAN
    PROVE  /\ WithAttempt(j).id = j.id /\ WithAttempt(j).attempts = j.attempts + 1
           /\ WithSkip(j).id = j.id /\ WithSkip(j).attempts = j.attempts
           /\ WithMainDone(j, stop).id = j.id /\ WithMainDone(j, stop).attempts = j.attempts
  <1>1. WithAttempt(j).id = j.id /\ WithAttempt(j).attempts = j.attempts + 1
    BY DEF WithAttempt, Journal
  <1>2. WithSkip(j).id = j.id /\ WithSkip(j).attempts = j.attempts
    BY DEF WithSkip, Journal
  <1>3. WithMainDone(j, stop).id = j.id /\ WithMainDone(j, stop).attempts = j.attempts
    BY DEF WithMainDone, Journal
  <1>4. QED
    BY <1>1, <1>2, <1>3

\* Where a step that restarts nothing can take the copies of the journal.
CountMoves ==
    /\ UNCHANGED <<restarts, runs>>
    /\ disk' \in late \cup {disk, mem, NoJournal}
    /\ late' \subseteq late \cup {mem, NoJournal}
    /\ \/ mem' \in {mem, disk, NoJournal}
       \/ \E j \in Journal \cap {mem, disk} :
             mem' # NoJournal => mem'.id = j.id /\ mem'.attempts \in {j.attempts, j.attempts + 1}

\* The conjuncts of CapInv about the copies of the journal.
CopiesCounted ==
    /\ RestartsCapped
    /\ \A id \in Ids : id > runs => restarts[id] = 0
    /\ Counted(disk) /\ Counted(mem)
    /\ \A j \in late : Counted(j)

\* A step that only moves copies, and restarts nothing, keeps every copy counted.
LEMMA MovesCounted == ASSUME CapInv, Typed', CountMoves PROVE CopiesCounted'
  <1>1. CountedFor(disk, restarts) /\ CountedFor(mem, restarts) /\ CountedFor(NoJournal, restarts)
        /\ \A j \in late : CountedFor(j, restarts)
    BY DEF CapInv, Counted, CountedFor
  <1>2. ASSUME NEW j \in Journal \cap {mem, disk}, NEW k,
               k # NoJournal => k.id = j.id /\ k.attempts \in {j.attempts, j.attempts + 1}
        PROVE  CountedFor(k, restarts)
    <2>1. j # NoJournal /\ j.attempts \in Nat /\ restarts[j.id] \in Nat
      BY JournalTyping DEF CapInv, TypeOK
    <2>2. QED
      BY <1>1, <1>2, <2>1 DEF CountedFor
  <1>3. CountedFor(disk', restarts) /\ CountedFor(mem', restarts)
        /\ \A j \in late' : CountedFor(j, restarts)
    BY <1>1, <1>2 DEF CountMoves
  <1>4. QED
    BY <1>3 DEF CopiesCounted, CapInv, RestartsCapped, Counted, CountedFor, CountMoves

\* The conjuncts of CapInv about where the run is.
CountPlaces ==
    /\ late # {} => \/ pc = "idle"
                    \/ pc \in {"unwind", "unwindWrite"} /\ cause = "user"
                    \/ pc = "clear" /\ cause \in {"user", "userFailed"}
    /\ pc = "stallWrite" => cause = "stall" /\ restarts[mem.id] < mem.attempts
    /\ pc \in {"countWrite", "prepare"} =>
           restarts[mem.id] < mem.attempts /\ mem.attempts <= MaxResume
    /\ pc = "prepare" => disk = mem

\* The parts of CapInv a step has to re-establish.
LEMMA CapPartsNext == Typed' /\ CopiesCounted' /\ CountPlaces' => CapInv'
  BY DEF CapInv, Typed, CopiesCounted, CountPlaces

\* A restart that is counted in the journal, on disk and in memory, stays within the cap.
LEMMA RestartCounted ==
    ASSUME CapInv, mem \in Journal, restarts[mem.id] < mem.attempts, mem.attempts <= MaxResume,
           restarts' = [restarts EXCEPT ![mem.id] = @ + 1], runs' = runs,
           mem' = mem, disk' = mem, late' = {}
    PROVE  CopiesCounted'
  <1>1. /\ mem # NoJournal /\ mem.id \in Ids /\ mem.attempts \in Nat
        /\ restarts \in [Ids -> Nat] /\ runs \in Nat
        /\ mem.id <= runs /\ RestartsCapped /\ \A id \in Ids : id > runs => restarts[id] = 0
    BY JournalTyping, RunAssumption DEF CapInv, TypeOK, Counted
  <1>2. \A id \in Ids : restarts'[id] = IF id = mem.id THEN restarts[id] + 1 ELSE restarts[id]
    BY <1>1
  <1>3. restarts'[mem.id] <= mem.attempts
    BY <1>1, <1>2
  <1>4. RestartsCapped'
    BY <1>1, <1>2, <1>3, RunAssumption DEF RestartsCapped
  <1>5. \A id \in Ids : id > runs' => restarts'[id] = 0
    BY <1>1, <1>2 DEF Ids
  <1>6. Counted(disk)' /\ Counted(mem)'
    BY <1>1, <1>3 DEF Counted
  <1>7. QED
    BY <1>4, <1>5, <1>6 DEF CopiesCounted

\* A fresh run starts at zero, with no write of an earlier one in flight.
LEMMA FreshCounted ==
    ASSUME CapInv, Typed', FreshStart PROVE CopiesCounted' /\ CountPlaces'
  <1>1. runs \in Nat /\ runs + 1 \in Ids
    BY RunAssumption DEF FreshStart, CapInv, TypeOK, Ids
  <1>2. restarts[runs + 1] = 0
    BY <1>1 DEF CapInv
  <1>3. mem' # NoJournal /\ mem'.id = runs + 1 /\ mem'.attempts = 0
    BY <1>1, UnscannedTyping, JournalTyping DEF FreshStart
  <1>4. disk # NoJournal => disk.id \in Ids
    BY JournalTyping DEF CapInv, TypeOK
  <1>5. late' = {} /\ disk' = disk /\ restarts' = restarts /\ runs' = runs + 1
    BY DEF FreshStart, filed
  <1>9. (disk # NoJournal => disk.id \in Nat) /\ Counted(disk)
    BY <1>4 DEF CapInv, Ids
  <1>10. Counted(disk)' /\ Counted(mem)'
    BY <1>1, <1>2, <1>3, <1>5, <1>9 DEF Counted
  <1>11. RestartsCapped' /\ \A id \in Ids : id > runs' => restarts'[id] = 0
    BY <1>1, <1>5 DEF CapInv, RestartsCapped, Ids
  <1>6. CopiesCounted'
    BY <1>5, <1>10, <1>11 DEF CopiesCounted
  <1>7. CountPlaces'
    BY <1>5 DEF CountPlaces, FreshStart
  <1>8. QED
    BY <1>6, <1>7

\* A resume counts itself on disk before the run it restarts.
LEMMA ResumeCounted ==
    ASSUME CapInv, Typed', Die \/ ResumeStep PROVE CopiesCounted' /\ CountPlaces'
  <1> USE DEF CountMoves, CountPlaces, Active, RunPc
  <1>0. disk # NoJournal => disk \in Journal
    BY DEF CapInv, TypeOK
  <1>1. CASE Die
    BY <1>1, MovesCounted DEF Die, told
  <1>2. CASE ResumeLoad
    <2>1. CountMoves
      <3>1. /\ disk' = disk /\ late' = late /\ UNCHANGED <<restarts, runs>>
            /\ \/ mem' \in {mem, disk}
               \/ disk # NoJournal /\ mem' = WithAttempt(disk)
        BY <1>2 DEF ResumeLoad, filed, told
      <3>2. CASE mem' \in {mem, disk}
        BY <3>1, <3>2
      <3>3. CASE disk # NoJournal /\ mem' = WithAttempt(disk)
        <4>1. disk \in Journal /\ mem'.id = disk.id /\ mem'.attempts = disk.attempts + 1
          BY <1>0, <3>3, SameCount
        <4>2. QED
          BY <3>1, <4>1
      <3>4. QED
        BY <3>1, <3>2, <3>3
    <2>2. CountPlaces'
      <3>1. late' = late /\ pc' \in {"idle", "giveUp", "countWrite"} /\ restarts' = restarts
            /\ late = {}
        BY <1>2 DEF ResumeLoad, CapInv, filed, told
      <3>2. ASSUME pc' = "countWrite"
            PROVE  restarts[mem'.id] < mem'.attempts /\ mem'.attempts <= MaxResume
        <4>1. disk \in Journal /\ disk # NoJournal /\ disk.attempts < MaxResume /\ mem' = WithAttempt(disk)
          BY <1>0, <1>2, <3>2 DEF ResumeLoad
        <4>2. mem'.id = disk.id /\ mem'.attempts = disk.attempts + 1 /\ disk.attempts \in Nat
              /\ restarts[disk.id] \in Nat
          BY <4>1, SameCount, JournalTyping DEF CapInv, TypeOK
        <4>3. QED
          BY <4>1, <4>2, RunAssumption DEF CapInv, Counted
      <3>3. QED
        BY <3>1, <3>2
    <2>3. QED
      BY <2>1, <2>2, MovesCounted
  <1>3. CASE ResumeCount
    <2>1. CountMoves
      BY <1>3 DEF ResumeCount, told
    <2>2. CountPlaces'
      BY <1>3 DEF ResumeCount, CapInv, told
    <2>3. QED
      BY <2>1, <2>2, MovesCounted
  <1>4. CASE ResumeStart
    <2>1. mem \in Journal /\ mem.id \in Ids /\ mem.attempts \in Nat /\ disk = mem /\ late = {}
          /\ restarts[mem.id] \in Nat
      BY <1>4, JournalTyping DEF ResumeStart, CapInv, TypeOK, HasJournal
    <2>2. restarts[mem.id] < mem.attempts /\ mem.attempts <= MaxResume
      BY <1>4 DEF ResumeStart, CapInv
    <2>3. /\ restarts' = [restarts EXCEPT ![mem.id] = @ + 1] /\ runs' = runs
          /\ mem' = mem /\ disk' = disk /\ late' = late /\ pc' = "created"
      BY <1>4 DEF ResumeStart, filed
    <2>4. CopiesCounted'
      BY <2>1, <2>2, <2>3, RestartCounted
    <2>5. CountPlaces'
      BY <2>1, <2>3
    <2>6. QED
      BY <2>4, <2>5
  <1>5. CASE ResumeRefused \/ GiveUp
    <2>1. CountMoves
      BY <1>5 DEF ResumeRefused, GiveUp, FileBecomes, filed, told
    <2>2. CountPlaces'
      BY <1>5 DEF ResumeRefused, GiveUp, FileBecomes, CapInv, filed, told
    <2>3. QED
      BY <2>1, <2>2, MovesCounted
  <1>6. QED
    BY <1>1, <1>2, <1>3, <1>4, <1>5 DEF ResumeStep

\* A stall restart: the count is on disk, and no older copy is in flight.
LEMMA StallCounted ==
    ASSUME CapInv, Typed', StallWritten, ~DiskFails PROVE CopiesCounted' /\ CountPlaces'
  <1>1. mem \in Journal /\ mem # NoJournal /\ mem.id \in Ids /\ mem.attempts \in Nat /\ late = {}
        /\ restarts[mem.id] \in Nat /\ restarts[mem.id] < mem.attempts
    BY JournalTyping DEF StallWritten, CapInv, TypeOK, HasJournal, Active, RunPc
  <1>2. /\ mem' = mem /\ disk' = mem /\ late' = {} /\ runs' = runs
        /\ pc' \in {"clear", "pass"}
    BY <1>1 DEF StallWritten, FileBecomes
  <1>3. \/ restarts' = restarts
        \/ mem.attempts <= MaxResume /\ restarts' = [restarts EXCEPT ![mem.id] = @ + 1]
    BY <1>1, RunAssumption DEF StallWritten
  <1>4. CopiesCounted'
    <2>1. CASE restarts' = restarts
      BY <1>1, <1>2, <2>1 DEF CapInv, CopiesCounted, RestartsCapped, Counted
    <2>2. CASE mem.attempts <= MaxResume /\ restarts' = [restarts EXCEPT ![mem.id] = @ + 1]
      BY <1>1, <1>2, <2>2, RestartCounted
    <2>3. QED
      BY <1>3, <2>1, <2>2
  <1>5. CountPlaces'
    BY <1>2 DEF CountPlaces
  <1>6. QED
    BY <1>4, <1>5

\* A save keeps the count of the journal.
LEMMA SaveCounted ==
    ASSUME CapInv, Typed', PassSave \/ UnwindSave PROVE CopiesCounted' /\ CountPlaces'
  <1>1. Typed /\ HasJournal /\ SaveSome /\ UNCHANGED <<filed, told, cause>>
        /\ \/ pc = "pass" /\ pc' = "passWrite"
           \/ pc = "unwind" /\ pc' = "unwindWrite"
    BY DEF CapInv, Typed, PassSave, UnwindSave, HasJournal, Active, RunPc
  <1>2. PICK batch \in SUBSET Rows : \E codes \in [batch -> Codes] : Save(batch, codes)
    BY <1>1, SomeSaved
  <1> PICK codes \in [batch -> Codes] : Save(batch, codes)
    BY <1>2
  <1>3. mem' \in Journal /\ mem'.id = mem.id /\ mem'.attempts = mem.attempts
    BY <1>1, SaveTyping
  <1>4. mem \in Journal
    BY <1>1 DEF Typed, TypeOK
  <1>5. CountMoves
    BY <1>1, <1>3, <1>4 DEF CountMoves, filed, told
  <1>6. CountPlaces'
    BY <1>1 DEF CountPlaces, CapInv, filed, told
  <1>7. QED
    BY <1>5, <1>6, MovesCounted

\* The steps of a run that write the journal, mark it or leave it: the count stays or, before a
\* stall restart, rises first.
LEMMA RunCounted ==
    ASSUME CapInv, Typed', RunStep, ~PassSave, ~UnwindSave, ~StallWritten
    PROVE  CopiesCounted' /\ CountPlaces'
  <1>1. mem \in Journal /\ mem # NoJournal /\ mem.attempts \in Nat /\ restarts[mem.id] \in Nat
    <2>1. HasJournal /\ TypeOK
      BY DEF RunStep, PassStep, SheetGone, BeginJournal, BeginWritten, PassWritten, MainDone,
             RetryDone, LoginDone, PassBreaks, UnwindWritten, UnwindNothing, UnwindFails,
             MarkWritten, CooldownOver, SkipRetry, SkipWritten, Close, CloseFails, Cleared,
             Active, RunPc, HasJournal, CapInv
    <2>2. QED
      BY <2>1, JournalTyping DEF CapInv, TypeOK
  <1>2. /\ UNCHANGED <<restarts, runs, late>>
        /\ disk' \in {disk, mem, NoJournal}
        /\ \/ mem' = mem
           \/ mem' = WithAttempt(mem) \/ mem' = WithSkip(mem)
           \/ \E stop \in BOOLEAN : mem' = WithMainDone(mem, stop)
    <2>1. CASE SheetGone \/ BeginJournal \/ BeginWritten
      BY <2>1 DEF SheetGone, BeginJournal, BeginWritten, FileBecomes, filed, told
    <2>2. CASE PassStep
      BY <2>2 DEF PassStep, PassWritten, MainDone, RetryDone, LoginDone, PassBreaks,
                  FileBecomes, filed, told
    <2>3. CASE UnwindWritten \/ UnwindNothing \/ UnwindFails
      BY <2>3 DEF UnwindWritten, UnwindNothing, UnwindFails, AfterUnwind, FileBecomes, filed, told
    <2>4. CASE MarkWritten \/ CooldownOver \/ SkipRetry \/ SkipWritten
      BY <2>4 DEF MarkWritten, CooldownOver, SkipRetry, SkipWritten, FileBecomes, filed, told
    <2>5. CASE Close \/ CloseFails \/ Cleared
      BY <2>5 DEF Close, CloseFails, Cleared, EndRun, FileBecomes, filed, told
    <2>6. QED
      BY <2>1, <2>2, <2>3, <2>4, <2>5 DEF RunStep
  <1>3. mem' \in Journal /\ mem'.id = mem.id /\ mem'.attempts \in {mem.attempts, mem.attempts + 1}
    BY <1>1, <1>2, SameCount, JournalTyping
  <1>4. CountMoves
    BY <1>1, <1>2, <1>3 DEF CountMoves
  <1>5. CountPlaces'
    <2>1. late' = late /\ pc' \notin {"countWrite", "prepare"} /\ pc \in RunPc
          /\ (pc' \in RunPc \/ pc' = "idle")
      BY <1>2 DEF RunStep, PassStep, SheetGone, BeginJournal, BeginWritten, AfterMain, PassWritten,
             MainDone, RetryDone, LoginDone, PassBreaks, UnwindWritten, UnwindNothing,
             AfterUnwind, UnwindFails, MarkWritten, CooldownOver, SkipRetry, SkipWritten, Close,
             CloseFails, Cleared, EndRun, RunPc
    <2>2. late # {} => \/ pc' = "idle"
                       \/ pc' \in {"unwind", "unwindWrite"} /\ cause' = "user"
                       \/ pc' = "clear" /\ cause' \in {"user", "userFailed"}
      <3> SUFFICES ASSUME late # {}
                   PROVE  \/ pc' = "idle"
                          \/ pc' \in {"unwind", "unwindWrite"} /\ cause' = "user"
                          \/ pc' = "clear" /\ cause' \in {"user", "userFailed"}
        OBVIOUS
      <3>1. /\ pc # "idle" => UnwindWritten \/ UnwindNothing \/ UnwindFails \/ Cleared
            /\ \/ pc \in {"unwind", "unwindWrite"} /\ cause = "user"
               \/ pc = "clear" /\ cause \in {"user", "userFailed"}
        BY <2>1 DEF RunPc, CapInv, RunStep, PassStep, SheetGone, BeginJournal, BeginWritten,
             PassWritten, MainDone, RetryDone, LoginDone, PassBreaks, MarkWritten, CooldownOver,
             SkipRetry, SkipWritten, Close, CloseFails
      <3>2. QED
        BY <2>1, <3>1 DEF RunPc, UnwindWritten, UnwindNothing, UnwindFails, Cleared, AfterUnwind, EndRun
    <2>3. ASSUME pc' = "stallWrite" PROVE cause' = "stall" /\ restarts'[mem'.id] < mem'.attempts
      <3>1. cause' = "stall" /\ mem' = WithAttempt(mem)
        BY <2>1, <2>3 DEF RunStep, PassStep, SheetGone, BeginJournal, BeginWritten, AfterMain,
             PassWritten, MainDone, RetryDone, LoginDone, PassBreaks, UnwindWritten,
             UnwindNothing, AfterUnwind, UnwindFails, MarkWritten, CooldownOver, SkipRetry,
             SkipWritten, Close, CloseFails, Cleared, EndRun
      <3>2. mem'.id = mem.id /\ mem'.attempts = mem.attempts + 1 /\ restarts[mem.id] <= mem.attempts
        BY <1>1, <3>1, SameCount DEF CapInv, Counted
      <3>3. QED
        BY <1>1, <1>2, <3>1, <3>2
    <2>4. QED
      BY <2>1, <2>2, <2>3 DEF CountPlaces, CapInv, Active
  <1>6. QED
    BY <1>4, <1>5, MovesCounted

\* A user cancel: what is in flight is only ever written after the run is over, or before its end.
LEMMA CancelCounted ==
    ASSUME CapInv, Typed', UserCancel PROVE CopiesCounted' /\ CountPlaces'
  <1>1. CountMoves
    BY DEF UserCancel, CancelUnjournaled, CancelPass, CancelOutsidePass, Abandon, CountMoves,
           EndRun, filed, told
  <1>2. CountPlaces'
    BY DEF UserCancel, CancelUnjournaled, CancelPass, CancelOutsidePass, Abandon, CountPlaces,
           CapInv, EndRun, filed, told, Active, RunPc
  <1>3. QED
    BY <1>1, <1>2, MovesCounted

\* A write of an earlier process, or of a cancelled pass, lands.
LEMMA LateCounted ==
    ASSUME CapInv, Typed', NEW j \in late, LateWrite(j) PROVE CopiesCounted' /\ CountPlaces'
  <1>1. CountMoves
    BY DEF LateWrite, CountMoves, told
  <1>2. CountPlaces'
    BY DEF LateWrite, CountPlaces, CapInv, Active, RunPc, told
  <1>3. QED
    BY <1>1, <1>2, MovesCounted

\* Every step keeps the restart cap when journal writes do not fail.
LEMMA CapNext == ASSUME ~DiskFails PROVE CapInv /\ [Next]_vars => CapInv'
  <1> SUFFICES ASSUME CapInv, [Next]_vars PROVE CapInv'
    OBVIOUS
  <1>1. Typed
    BY DEF CapInv, Typed
  <1>2. Typed'
    BY <1>1, TypeNext
  <1>3. CASE UNCHANGED vars
    BY <1>3 DEF vars, CapInv, TypeOK, HasJournal, Active, RestartsCapped, Counted
  <1>4. CASE FreshStart \/ Die \/ ResumeStep
    BY <1>2, <1>4, FreshCounted, ResumeCounted, CapPartsNext
  <1>5. CASE PassSave \/ UnwindSave \/ StallWritten
    BY <1>2, <1>5, SaveCounted, StallCounted, CapPartsNext
  <1>6. CASE RunStep /\ ~PassSave /\ ~UnwindSave /\ ~StallWritten
    BY <1>2, <1>6, RunCounted, CapPartsNext
  <1>7. CASE UserCancel \/ \E j \in late : LateWrite(j)
    BY <1>2, <1>7, CancelCounted, LateCounted, CapPartsNext
  <1>8. QED
    BY <1>3, <1>4, <1>5, <1>6, <1>7 DEF Next

\* As long as journal writes do not fail, a run is restarted at most MaxResume times, stall
\* restarts and resumes of any number of processes together.
THEOREM RestartsBounded == ASSUME ~DiskFails PROVE Spec => []RestartsCapped
  <1>1. Init => CapInv
    <2> SUFFICES ASSUME Init PROVE CapInv
      OBVIOUS
    <2>1. Typed
      BY TypeInit
    <2>2. QED
      BY <2>1, RunAssumption DEF Init, CapInv, Typed, RestartsCapped, Counted, Active, HasJournal
  <1>2. CapInv /\ [Next]_vars => CapInv'
    BY CapNext
  <1>3. CapInv => RestartsCapped
    BY DEF CapInv
  <1>4. QED
    BY <1>1, <1>2, <1>3, PTL DEF Spec

-----------------------------------------------------------------------------
(* Every row is scanned, and none over again: what a journal claims of its *)
(* phases is true of every copy, the phases past the main pass are only    *)
(* reached with a journal that says so, and what this process has counted  *)
(* is in the journal in memory.                                            *)

\* A main pass that is done without a stop has every row; a retry is of a row with a result.
Sound(j) ==
    j # NoJournal => /\ j.mainDone /\ ~j.stopped => JournalRows(j) = Rows
                     /\ j.retried \subseteq JournalRows(j)

PastMain ==
    \/ pc \in {"mark", "cooldown", "skipWrite", "closing"}
    \/ pass # "main"
    \/ cause = "completed"

\* The results counted are those the journal in memory names.
Tallied ==
    \/ tally = NoTally
    \/ /\ mem # NoJournal
       /\ \A r \in Rows : /\ tally["main"][r] > 0 => r \in JournalRows(mem)
                          /\ tally["retry"][r] > 0 => r \in mem.retried

OnceInv ==
    /\ HonestInv
    /\ Sound(disk) /\ Sound(mem)
    /\ \A j \in late : Sound(j)
    /\ PastMain => mem # NoJournal /\ mem.mainDone
    /\ CompletedCoversAll
    /\ Tallied /\ ScannedOnce
    /\ pc \in ResumePc => tally = NoTally /\ pass = "main" /\ cause = "none"

\* A step of the run that saves no result leaves the results and their count alone; it marks the
\* journal in memory, or leaves it too.
LEMMA RunChanges ==
    ASSUME Typed, RunStep, ~PassSave, ~UnwindSave
    PROVE  /\ mem \in Journal /\ HasJournal
           /\ UNCHANGED <<saved, again, tally, runs>>
           /\ \/ mem' \in {mem, WithAttempt(mem), WithSkip(mem)}
              \/ /\ MainDone
                 /\ \E stop \in BOOLEAN :
                       (stop \/ JournalRows(mem) = Rows) /\ mem' = WithMainDone(mem, stop)
  <1>1. CASE SheetGone \/ BeginJournal \/ BeginWritten
    BY <1>1 DEF SheetGone, BeginJournal, BeginWritten, filed, told, results, Typed, TypeOK,
                HasJournal, Active, RunPc
  <1>2. CASE MainDone
    <2>1. mem \in Journal /\ HasJournal /\ UNCHANGED <<saved, again, tally, runs>>
      BY <1>2 DEF MainDone, told, results, Typed, TypeOK, HasJournal, Active, RunPc
    <2>2. PICK stop \in BOOLEAN : (stop \/ Todo = {}) /\ mem' = WithMainDone(mem, stop)
      BY <1>2 DEF MainDone
    <2>3. Todo = Rows \ JournalRows(mem) /\ JournalRows(mem) \subseteq Rows
      BY <1>2 DEF MainDone, Todo, JournalRows
    <2>4. QED
      BY <1>2, <2>1, <2>2, <2>3
  <1>3. CASE PassStep /\ ~MainDone
    BY <1>3 DEF PassStep, PassWritten, RetryDone, LoginDone, PassBreaks, filed, told, results,
                Typed, TypeOK, HasJournal, Active, RunPc
  <1>4. CASE UnwindWritten \/ UnwindNothing \/ UnwindFails \/ StallWritten
    BY <1>4 DEF UnwindWritten, UnwindNothing, UnwindFails, AfterUnwind, StallWritten, filed, told,
                results, Typed, TypeOK, HasJournal, Active, RunPc
  <1>5. CASE MarkWritten \/ CooldownOver \/ SkipRetry \/ SkipWritten
    BY <1>5 DEF MarkWritten, CooldownOver, SkipRetry, SkipWritten, filed, told, results, Typed,
                TypeOK, HasJournal, Active, RunPc
  <1>6. CASE Close \/ CloseFails \/ Cleared
    BY <1>6 DEF Close, CloseFails, Cleared, EndRun, filed, told, results, Typed, TypeOK,
                HasJournal, Active, RunPc
  <1>7. QED
    BY <1>1, <1>2, <1>3, <1>4, <1>5, <1>6 DEF RunStep

\* A save of rows the pass was given.
LEMMA GivenSaved ==
    ASSUME Typed, PassSave \/ UnwindSave
    PROVE  /\ HasJournal /\ mem \in Journal /\ mem # NoJournal
           /\ \E batch \in SUBSET Rows :
                 /\ batch \subseteq Todo
                 /\ \E codes \in [batch -> Codes] : Save(batch, codes)
  <1>1. HasJournal /\ mem \in Journal /\ mem # NoJournal
    BY DEF PassSave, UnwindSave, HasJournal, Active, RunPc, Typed, TypeOK
  <1>2. PICK batch \in (SUBSET Todo) \ {{}} : \E codes \in [batch -> Codes] : Save(batch, codes)
    BY DEF PassSave, UnwindSave, SaveSome
  <1>3. batch \in SUBSET Rows /\ batch \subseteq Todo
    BY TodoRows
  <1>4. QED
    BY <1>1, <1>2, <1>3

\* A step that only moves copies of journals keeps every copy sound.
LEMMA MovesSound ==
    ASSUME OnceInv, Typed', Moves
    PROVE  Sound(disk') /\ Sound(mem') /\ \A j \in late' : Sound(j)
  <1>1. Sound(disk) /\ Sound(mem) /\ (\A j \in late : Sound(j)) /\ Sound(NoJournal)
    BY DEF OnceInv, Sound
  <1>2. ASSUME NEW id \in Ids PROVE Sound(Unscanned(id))
    BY DEF Sound, Unscanned, JournalRows
  <1>3. ASSUME NEW j \in Journal \cap {mem, disk}, NEW k,
               \/ k \in {WithAttempt(j), WithSkip(j)}
               \/ \E stop \in BOOLEAN : (stop \/ JournalRows(j) = Rows) /\ k = WithMainDone(j, stop)
        PROVE  Sound(k)
    <2>1. Sound(j) /\ j # NoJournal
      BY <1>1, JournalTyping
    <2>2. CASE \E stop \in BOOLEAN : (stop \/ JournalRows(j) = Rows) /\ k = WithMainDone(j, stop)
      <3>1. PICK stop \in BOOLEAN : (stop \/ JournalRows(j) = Rows) /\ k = WithMainDone(j, stop)
        BY <2>2
      <3>2. JournalRows(k) = JournalRows(j) /\ k.retried = j.retried /\ k.stopped = stop
        BY <3>1, SameRows
      <3>3. QED
        BY <2>1, <3>1, <3>2 DEF Sound
    <2>3. CASE k \in {WithAttempt(j), WithSkip(j)}
      <3>1. PICK stop \in BOOLEAN : stop
        OBVIOUS
      <3>2. CASE k = WithMainDone(j, stop)
        BY <2>2, <3>1, <3>2
      <3>3. CASE k # WithMainDone(j, stop)
        <4>1. /\ JournalRows(k) = JournalRows(j) /\ k.retried = j.retried
              /\ k.mainDone = j.mainDone /\ k.stopped = j.stopped
          BY <2>3, <3>3, SameRows
        <4>2. QED
          BY <2>1, <4>1 DEF Sound
      <3>4. QED
        BY <3>2, <3>3
    <2>4. QED
      BY <1>3, <2>2, <2>3
  <1>4. QED
    <2> HIDE DEF Sound
    <2> QED
      BY <1>1, <1>2, <1>3 DEF Moves, Typed, TypeOK

\* The phases past the main pass are entered with a journal that marks it done, and only a fresh
\* run or a death of the process unmarks it.
LEMMA PhaseNext ==
    ASSUME OnceInv, Typed', Next
    PROVE  PastMain' => mem' # NoJournal /\ mem'.mainDone
  <1>0. Typed /\ (PastMain => mem # NoJournal /\ mem.mainDone)
    BY DEF OnceInv, HonestInv, Typed
  <1> USE DEF PastMain
  <1>1. CASE FreshStart \/ Die
    BY <1>1 DEF FreshStart, Die
  <1>2. CASE ResumeStep
    <2>1. CASE ResumeLoad /\ mem' # mem
      <3>1. disk = NoJournal \/ disk \in Journal
        BY <1>0 DEF Typed, TypeOK
      <3>2. ~PastMain'
        BY <1>0, <2>1, <3>1 DEF ResumeLoad, OnceInv, ResumePc
      <3>3. QED
        BY <3>2
    <2>2. CASE mem' = mem
      BY <1>0, <1>2, <2>2
         DEF ResumeStep, ResumeLoad, ResumeCount, ResumeStart, ResumeRefused, GiveUp
    <2>3. QED
      BY <1>2, <2>1, <2>2 DEF ResumeStep, ResumeCount, ResumeStart, ResumeRefused, GiveUp
  <1>3. CASE PassSave \/ UnwindSave
    <2>1. /\ mem # NoJournal /\ HasJournal /\ UNCHANGED <<pass, cause>>
          /\ pc' \in {"passWrite", "unwindWrite"}
      BY <1>0, <1>3, GivenSaved DEF PassSave, UnwindSave
    <2>2. PICK batch \in SUBSET Rows : \E codes \in [batch -> Codes] : Save(batch, codes)
      BY <1>0, <1>3, GivenSaved
    <2>3. mem' \in Journal /\ mem'.mainDone = mem.mainDone
      BY <1>0, <2>1, <2>2, SaveTyping
    <2>4. QED
      BY <1>0, <2>1, <2>3, JournalTyping
  <1>4. CASE RunStep /\ ~PassSave /\ ~UnwindSave
    <2>1. /\ mem \in Journal
          /\ \/ mem' \in {mem, WithAttempt(mem), WithSkip(mem)}
             \/ \E stop \in BOOLEAN : mem' = WithMainDone(mem, stop)
      BY <1>0, <1>4, RunChanges
    <2>2. mem' # NoJournal /\ (mem.mainDone => mem'.mainDone)
      <3>1. mem' \in Journal
        BY <2>1, JournalTyping
      <3>2. ASSUME NEW stop \in BOOLEAN,
                   mem' \in {WithAttempt(mem), WithSkip(mem), WithMainDone(mem, stop)}
            PROVE  mem.mainDone => mem'.mainDone
        BY <2>1, <3>2, SameRows
      <3>3. QED
        BY <2>1, <3>1, <3>2, JournalTyping
    <2>3. CASE MainDone
      <3>1. PICK stop \in BOOLEAN : mem' = WithMainDone(mem, stop)
        BY <2>3 DEF MainDone
      <3>2. mem'.mainDone
        BY <2>1, <3>1, SameRows
      <3>3. QED
        BY <2>2, <3>2
    <2>4. CASE ~MainDone
      <3>1. PastMain' => PastMain \/ mem.mainDone
        BY <1>4, <2>4 DEF RunStep, PassStep, SheetGone, BeginJournal, BeginWritten, PassWritten,
             RetryDone, LoginDone, PassBreaks, UnwindWritten, UnwindNothing, AfterUnwind,
             UnwindFails, StallWritten, MarkWritten, CooldownOver, SkipRetry, SkipWritten, Close,
             CloseFails, Cleared, EndRun
      <3>2. QED
        BY <1>0, <2>2, <3>1
    <2>5. QED
      BY <2>3, <2>4
  <1>5. CASE UserCancel \/ \E j \in late : LateWrite(j)
    BY <1>0, <1>5 DEF UserCancel, CancelUnjournaled, CancelPass, CancelOutsidePass, EndRun, LateWrite
  <1>6. QED
    BY <1>1, <1>2, <1>3, <1>4, <1>5 DEF Next

\* A run is called completed only when every row has a saved result, and keeps it.
LEMMA CoversNext == ASSUME OnceInv, Typed', Next PROVE CompletedCoversAll'
  <1>1. Typed /\ saved \in [Ids -> SUBSET Rows] /\ ended \in [Ids -> Ending]
    BY DEF OnceInv, HonestInv, Typed, TypeOK
  <1>2. CASE ended' = ended /\ (saved' = saved \/ PassSave \/ UnwindSave)
    <2>1. CASE PassSave \/ UnwindSave
      <3>1. mem \in Journal /\ mem.id \in Ids
        BY <1>1, <2>1, GivenSaved, JournalTyping
      <3>2. PICK batch \in SUBSET Rows : saved' = [saved EXCEPT ![mem.id] = @ \cup batch]
        BY <1>1, <2>1, GivenSaved DEF Save
      <3>3. \A id \in Ids : saved[id] \subseteq saved'[id] /\ saved'[id] \subseteq Rows
        BY <1>1, <3>1, <3>2
      <3>4. QED
        BY <1>1, <1>2, <3>3 DEF OnceInv, CompletedCoversAll
    <2>2. CASE saved' = saved
      BY <1>2, <2>2 DEF OnceInv, CompletedCoversAll
    <2>3. QED
      BY <1>2, <2>1, <2>2
  <1>3. CASE saved' = saved /\ Cleared
    <2>1. mem \in Journal /\ mem # NoJournal /\ mem.id \in Ids
      BY <1>1, <1>3, JournalTyping DEF Cleared, Typed, TypeOK, HasJournal, Active, RunPc
    <2>2. ended' = [ended EXCEPT ![mem.id] = Outcome]
      BY <1>3 DEF Cleared, EndRun
    <2>3. Outcome = "completed" => saved[mem.id] = Rows
      <3>1. Outcome = "completed" => cause = "completed" /\ ~mem.stopped
        BY DEF Outcome
      <3>2. cause = "completed" => mem.mainDone
        BY DEF OnceInv, PastMain
      <3>3. JournalRows(mem) \subseteq saved[mem.id] /\ saved[mem.id] \subseteq Rows
        BY <1>1, <2>1 DEF OnceInv, HonestInv, Honest
      <3>4. QED
        BY <2>1, <3>1, <3>2, <3>3 DEF OnceInv, Sound
    <2>4. QED
      BY <1>1, <1>3, <2>1, <2>2, <2>3 DEF OnceInv, CompletedCoversAll
  <1>4. ASSUME saved' = saved, NEW id \in Ids, NEW how, how # "completed",
               ended' = [ended EXCEPT ![id] = how]
        PROVE  CompletedCoversAll'
    BY <1>1, <1>4 DEF OnceInv, CompletedCoversAll
  <1>5. CASE FreshStart \/ Die \/ ResumeStep \/ \E j \in late : LateWrite(j)
    <2>1. saved' = saved
      BY <1>5 DEF FreshStart, Die, ResumeStep, ResumeLoad, ResumeCount, ResumeStart,
                  ResumeRefused, GiveUp, LateWrite, results
    <2>2. CASE ended' = ended
      BY <1>2, <2>1, <2>2
    <2>3. CASE GiveUp
      <3>1. mem.id \in Ids
        BY <1>1, <2>3, JournalTyping DEF GiveUp, Typed, TypeOK, HasJournal
      <3>2. ended' = [ended EXCEPT ![mem.id] = "givenUp"]
        BY <2>3 DEF GiveUp
      <3>3. QED
        BY <1>4, <2>1, <3>1, <3>2
    <2>4. QED
      BY <1>5, <2>2, <2>3 DEF FreshStart, Die, ResumeStep, ResumeLoad, ResumeCount, ResumeStart,
                  ResumeRefused, LateWrite, told
  <1>6. CASE UserCancel \/ SheetGone
    <2>1. saved' = saved
      BY <1>6 DEF UserCancel, CancelUnjournaled, CancelPass, CancelOutsidePass, SheetGone, results
    <2>2. \/ ended' = ended
          \/ /\ Active
             /\ \E how \in {"failedKept", "cancelledKept"} : ended' = [ended EXCEPT ![mem.id] = how]
      BY <1>6 DEF UserCancel, CancelUnjournaled, CancelPass, CancelOutsidePass, SheetGone, EndRun,
                  told, Active, RunPc
    <2>3. Active => mem.id \in Ids
      BY <1>1, JournalTyping DEF Typed, TypeOK, HasJournal
    <2>4. QED
      BY <1>2, <1>4, <2>1, <2>2, <2>3
  <1>7. CASE RunStep /\ ~SheetGone /\ ~Cleared
    <2>1. ended' = ended
      BY <1>7 DEF RunStep, PassStep, PassSave, BeginJournal, BeginWritten, PassWritten, MainDone,
             RetryDone, LoginDone, PassBreaks, UnwindSave, UnwindWritten, UnwindNothing,
             UnwindFails, StallWritten, MarkWritten, CooldownOver, SkipRetry, SkipWritten, Close,
             CloseFails, told
    <2>2. QED
      BY <1>1, <1>2, <1>7, <2>1, RunChanges
  <1>8. QED
    BY <1>3, <1>5, <1>6, <1>7 DEF Next, Cleared, results

\* A pass is given only rows its kind of pass has no result for in this process, and the count of
\* every batch enters the journal in memory with it.
LEMMA TallySaved ==
    ASSUME OnceInv, Typed', PassSave \/ UnwindSave
    PROVE  Tallied' /\ ScannedOnce' /\ Sound(mem')
  <1>1. Typed /\ tally \in [{"main", "retry"} -> [Rows -> Nat]] /\ Sound(mem)
    BY DEF OnceInv, HonestInv, Typed, TypeOK
  <1>2. HasJournal /\ mem \in Journal /\ mem # NoJournal
    BY <1>1, GivenSaved
  <1>3. PICK batch \in SUBSET Rows :
            batch \subseteq Todo /\ \E codes \in [batch -> Codes] : Save(batch, codes)
    BY <1>1, GivenSaved
  <1> PICK codes \in [batch -> Codes] : Save(batch, codes)
    BY <1>3
  <1>4. /\ mem' \in Journal /\ mem' # NoJournal
        /\ mem'.mainDone = mem.mainDone /\ mem'.stopped = mem.stopped
        /\ mem'.retried = (IF pass = "main" THEN mem.retried \ batch ELSE mem.retried \cup batch)
        /\ JournalRows(mem') = JournalRows(mem) \cup batch
    BY <1>1, <1>2, SaveTyping, JournalTyping
  <1>5. mem.retried \subseteq JournalRows(mem) /\ JournalRows(mem) \subseteq Rows
    BY <1>1, <1>2 DEF Sound, JournalRows
  <1>6. Sound(mem')
    BY <1>1, <1>2, <1>4, <1>5 DEF Sound
  <1>7. \A r \in Rows : /\ tally["main"][r] > 0 => r \in JournalRows(mem)
                        /\ tally["retry"][r] > 0 => r \in mem.retried
    <2>1. CASE tally = NoTally
      BY <2>1 DEF NoTally
    <2>2. CASE tally # NoTally
      BY <2>2 DEF OnceInv, Tallied
    <2>3. QED
      BY <2>1, <2>2
  <1>8. \A r \in Rows : tally["main"][r] <= 1 /\ tally["retry"][r] <= 1
    BY DEF OnceInv, ScannedOnce
  <1>9. CASE pass = "main"
    <2>1. batch \cap JournalRows(mem) = {}
      BY <1>3, <1>9 DEF Todo
    <2>2. tally' = [tally EXCEPT !["main"] = [r \in Rows |-> IF r \in batch THEN @[r] + 1 ELSE @[r]]]
      BY <1>9 DEF Save
    <2>3. \A r \in Rows : /\ tally'["main"][r] = IF r \in batch THEN tally["main"][r] + 1
                                                 ELSE tally["main"][r]
                          /\ tally'["retry"][r] = tally["retry"][r]
      BY <1>1, <2>2
    <2>4. \A r \in Rows : tally["main"][r] \in Nat /\ tally["retry"][r] \in Nat
      BY <1>1
    <2>5. Tallied'
      BY <1>4, <1>5, <1>7, <1>9, <2>1, <2>3, <2>4 DEF Tallied
    <2>6. ScannedOnce'
      BY <1>7, <1>8, <2>1, <2>3, <2>4 DEF ScannedOnce
    <2>7. QED
      BY <1>6, <2>5, <2>6
  <1>10. CASE pass # "main"
    <2>1. batch \cap mem.retried = {}
      BY <1>1, <1>3, <1>10 DEF Todo, RetryCandidates, LoginCandidates, Typed, TypeOK
    <2>2. tally' = [tally EXCEPT !["retry"] = [r \in Rows |-> IF r \in batch THEN @[r] + 1 ELSE @[r]]]
      BY <1>10 DEF Save
    <2>3. \A r \in Rows : /\ tally'["retry"][r] = IF r \in batch THEN tally["retry"][r] + 1
                                                  ELSE tally["retry"][r]
                          /\ tally'["main"][r] = tally["main"][r]
      BY <1>1, <2>2
    <2>4. \A r \in Rows : tally["main"][r] \in Nat /\ tally["retry"][r] \in Nat
      BY <1>1
    <2>5. Tallied'
      BY <1>4, <1>7, <1>10, <2>3, <2>4 DEF Tallied
    <2>6. ScannedOnce'
      BY <1>7, <1>8, <2>1, <2>3, <2>4 DEF ScannedOnce
    <2>7. QED
      BY <1>6, <2>5, <2>6
  <1>11. QED
    BY <1>9, <1>10

\* Every other step counts nothing and leaves the rows of the journal in memory, or starts the
\* count anew; a resume has nothing counted yet.
LEMMA TallyKept ==
    ASSUME OnceInv, Typed', Next, ~PassSave, ~UnwindSave
    PROVE  Tallied' /\ ScannedOnce' /\ (pc' \in ResumePc => tally' = NoTally)
  <1>0. Typed
    BY DEF OnceInv, HonestInv, Typed
  <1>1. ASSUME tally' = NoTally PROVE Tallied' /\ ScannedOnce'
    <2>1. \A p \in {"main", "retry"} : \A r \in Rows : NoTally[p][r] = 0
      BY DEF NoTally
    <2>2. QED
      BY <1>1, <2>1 DEF Tallied, ScannedOnce
  <1>2. ASSUME tally' = tally,
               mem # NoJournal => /\ mem' # NoJournal /\ JournalRows(mem') = JournalRows(mem)
                                  /\ mem'.retried = mem.retried
        PROVE  Tallied' /\ ScannedOnce'
    BY <1>2 DEF OnceInv, Tallied, ScannedOnce
  <1>3. CASE FreshStart \/ Die
    BY <1>1, <1>3 DEF FreshStart, Die
  <1>4. CASE ResumeStep
    <2>1. tally' = NoTally
      BY <1>4 DEF OnceInv, ResumePc, ResumeStep, ResumeLoad, ResumeCount, ResumeStart,
                  ResumeRefused, GiveUp, results
    <2>2. QED
      BY <1>1, <2>1
  <1>5. CASE RunStep
    <2>1. /\ mem \in Journal /\ tally' = tally
          /\ \/ mem' \in {mem, WithAttempt(mem), WithSkip(mem)}
             \/ \E stop \in BOOLEAN : mem' = WithMainDone(mem, stop)
      BY <1>0, <1>5, RunChanges
    <2>2. mem' \in Journal /\ mem' # NoJournal
      BY <2>1, JournalTyping
    <2>3. JournalRows(mem') = JournalRows(mem) /\ mem'.retried = mem.retried
      <3>1. ASSUME NEW stop \in BOOLEAN,
                   mem' \in {WithAttempt(mem), WithSkip(mem), WithMainDone(mem, stop)}
            PROVE  JournalRows(mem') = JournalRows(mem) /\ mem'.retried = mem.retried
        BY <2>1, <3>1, SameRows
      <3>2. QED
        BY <2>1, <3>1
    <2>4. pc' \notin ResumePc
      BY <1>5 DEF ResumePc, RunStep, PassStep, PassSave, SheetGone, BeginJournal, BeginWritten,
             AfterMain, PassWritten, MainDone, RetryDone, LoginDone, PassBreaks, UnwindSave,
             UnwindWritten, UnwindNothing, AfterUnwind, UnwindFails, StallWritten, MarkWritten,
             CooldownOver, SkipRetry, SkipWritten, Close, CloseFails, Cleared, EndRun
    <2>5. QED
      BY <1>2, <2>1, <2>2, <2>3, <2>4
  <1>6. CASE UserCancel \/ \E j \in late : LateWrite(j)
    <2>1. tally' = tally /\ mem' = mem /\ (pc' \in ResumePc => pc \in ResumePc)
      BY <1>6 DEF ResumePc, UserCancel, CancelUnjournaled, CancelPass, CancelOutsidePass, EndRun,
                  LateWrite, results
    <2>2. QED
      BY <1>2, <2>1 DEF OnceInv
  <1>7. QED
    BY <1>3, <1>4, <1>5, <1>6 DEF Next

\* Every step keeps what journals claim of their phases, and the count.
LEMMA OnceNext == OnceInv /\ [Next]_vars => OnceInv'
  <1> SUFFICES ASSUME OnceInv, [Next]_vars PROVE OnceInv'
    OBVIOUS
  <1>1. HonestInv' /\ Typed /\ Typed'
    BY HonestNext, TypeNext DEF OnceInv, HonestInv, Typed
  <1>2. CASE UNCHANGED vars
    BY <1>1, <1>2 DEF vars, OnceInv, Sound, PastMain, CompletedCoversAll, Tallied, ScannedOnce
  <1>3. CASE Next
    <2>1. Sound(disk') /\ Sound(mem') /\ \A j \in late' : Sound(j)
      <3>1. CASE PassSave \/ UnwindSave
        BY <1>1, <3>1, TallySaved DEF PassSave, UnwindSave, OnceInv, filed
      <3>2. CASE ~PassSave /\ ~UnwindSave
        BY <1>1, <1>3, <3>2, StartMoves, RunMoves, CancelMoves, MovesSound DEF Next
      <3>3. QED
        BY <3>1, <3>2
    <2>2. PastMain' => mem' # NoJournal /\ mem'.mainDone
      BY <1>1, <1>3, PhaseNext
    <2>3. CompletedCoversAll'
      BY <1>1, <1>3, CoversNext
    <2>4. Tallied' /\ ScannedOnce' /\ (pc' \in ResumePc => tally' = NoTally)
      BY <1>1, <1>3, TallySaved, TallyKept DEF PassSave, UnwindSave, ResumePc
    <2>5. pc' \in ResumePc => pass' = "main" /\ cause' = "none"
      <3>1. CASE FreshStart \/ Die \/ ResumeStep \/ UserCancel \/ \E j \in late : LateWrite(j)
        BY <3>1 DEF OnceInv, ResumePc, FreshStart, Die, ResumeStep, ResumeLoad, ResumeCount,
             ResumeStart, ResumeRefused, GiveUp, UserCancel, CancelUnjournaled, CancelPass,
             CancelOutsidePass, EndRun, LateWrite
      <3>2. CASE RunStep
        BY <3>2 DEF ResumePc, RunStep, PassStep, PassSave, SheetGone, BeginJournal, BeginWritten,
             AfterMain, PassWritten, MainDone, RetryDone, LoginDone, PassBreaks, UnwindSave,
             UnwindWritten, UnwindNothing, AfterUnwind, UnwindFails, StallWritten, MarkWritten,
             CooldownOver, SkipRetry, SkipWritten, Close, CloseFails, Cleared, EndRun
      <3>3. QED
        BY <1>3, <3>1, <3>2 DEF Next
    <2>6. QED
      BY <1>1, <2>1, <2>2, <2>3, <2>4, <2>5 DEF OnceInv, Sound
  <1>4. QED
    BY <1>2, <1>3

\* A run that completed has a saved result for every row, and in one process no row is scanned
\* twice by the main pass nor by the retry passes, whatever stalls, cancels and resumes there were.
THEOREM RowsStay == Spec => []RowsScannedOnce
  <1>1. Init => OnceInv
    <2> SUFFICES ASSUME Init PROVE OnceInv
      OBVIOUS
    <2>1. HonestInv
      BY TypeInit DEF Init, HonestInv, Typed, Honest
    <2>2. ScannedOnce /\ Tallied
      BY DEF Init, ScannedOnce, Tallied, NoTally
    <2>3. CompletedCoversAll
      BY DEF Init, CompletedCoversAll
    <2>4. QED
      BY <2>1, <2>2, <2>3 DEF Init, OnceInv, Sound, PastMain, ResumePc
  <1>2. OnceInv => RowsScannedOnce
    BY DEF OnceInv, RowsScannedOnce
  <1>3. QED
    BY <1>1, <1>2, OnceNext, PTL DEF Spec

-----------------------------------------------------------------------------
(* What the file says is respected: the file, and a write that may still   *)
(* replace it, never say more of the run under way than its memory does.   *)

\* What copy j says of m, when both are of one run: m says it too.
Behind(j, m) ==
    j # NoJournal /\ j.id = m.id => /\ JournalRows(j) \subseteq JournalRows(m)
                                    /\ j.stopped => m.stopped

\* Where a run may still save results, or come to where it may.
Scanning == {"countWrite", "prepare", "created", "begin", "pass", "passWrite", "unwind",
             "unwindWrite", "stallWrite", "cooldown"}

RespectInv ==
    /\ Typed
    /\ \A j \in late \cup {disk, mem} : j # NoJournal => j.id <= runs
    /\ HasJournal => \A j \in late \cup {disk} : Behind(j, mem)
    /\ pc \in Scanning => ~mem.stopped
    /\ pc \in ResumePc => late = {}

\* A step of the run only adds to what the journal in memory says.
LEMMA RunGrows ==
    ASSUME RespectInv, RunStep
    PROVE  /\ HasJournal /\ mem \in Journal /\ mem # NoJournal
           /\ mem' \in Journal /\ mem'.id = mem.id
           /\ JournalRows(mem) \subseteq JournalRows(mem') /\ (mem.stopped => mem'.stopped)
           /\ runs' = runs
  <1>0. Typed
    BY DEF RespectInv
  <1>1. CASE PassSave \/ UnwindSave
    <2>1. HasJournal /\ mem \in Journal /\ mem # NoJournal
      BY <1>0, <1>1, GivenSaved
    <2>2. PICK batch \in SUBSET Rows : \E codes \in [batch -> Codes] : Save(batch, codes)
      BY <1>0, <1>1, GivenSaved
    <2>3. /\ mem' \in Journal /\ mem'.id = mem.id /\ mem'.stopped = mem.stopped
          /\ JournalRows(mem') = JournalRows(mem) \cup batch
      BY <1>0, <2>1, <2>2, SaveTyping
    <2>4. runs' = runs
      BY <1>1 DEF PassSave, UnwindSave, told
    <2>5. QED
      BY <2>1, <2>3, <2>4
  <1>2. CASE ~PassSave /\ ~UnwindSave
    <2>1. /\ mem \in Journal /\ mem # NoJournal /\ HasJournal /\ runs' = runs
          /\ \/ mem' \in {mem, WithAttempt(mem), WithSkip(mem)}
             \/ MainDone /\ \E stop \in BOOLEAN : mem' = WithMainDone(mem, stop)
      BY <1>0, <1>2, RunChanges, JournalTyping
    <2>2. mem' \in Journal
      BY <2>1, JournalTyping
    <2>3. ASSUME NEW stop \in BOOLEAN,
                 mem' \in {WithAttempt(mem), WithSkip(mem), WithMainDone(mem, stop)}
          PROVE  /\ mem'.id = mem.id /\ JournalRows(mem') = JournalRows(mem)
                 /\ mem' # WithMainDone(mem, stop) => mem'.stopped = mem.stopped
      BY <2>1, <2>3, SameRows
    <2>4. MainDone => ~mem.stopped
      BY DEF MainDone, RespectInv, Scanning
    <2>5. mem'.id = mem.id /\ JournalRows(mem') = JournalRows(mem)
      BY <2>1, <2>3
    <2>6. mem.stopped => mem'.stopped
      <3>1. CASE \E stop \in BOOLEAN : mem' # WithMainDone(mem, stop)
        BY <2>1, <2>3, <2>4, <3>1
      <3>2. CASE \A stop \in BOOLEAN : mem' = WithMainDone(mem, stop)
        <4>1. PICK stop \in BOOLEAN : stop
          OBVIOUS
        <4>2. mem' = WithMainDone(mem, stop)
          BY <3>2
        <4>3. mem'.stopped = stop
          BY <2>1, <4>2, SameRows
        <4>4. QED
          BY <4>1, <4>3
      <3>3. QED
        BY <3>1, <3>2
    <2>7. QED
      BY <2>1, <2>2, <2>5, <2>6
  <1>3. QED
    BY <1>1, <1>2

\* A step of the run, a cancel or a late write only moves the copies of the journal it finds.
LEMMA CopiesMove ==
    ASSUME Typed, RunStep \/ UserCancel \/ \E j \in late : LateWrite(j)
    PROVE  disk' \in late \cup {disk, mem, NoJournal} /\ late' \subseteq late \cup {mem, NoJournal}
  <1>1. CASE PassSave \/ UnwindSave
    BY <1>1 DEF PassSave, UnwindSave, filed
  <1>2. CASE ~PassSave /\ ~UnwindSave
    BY <1>2, StartMoves, RunMoves, CancelMoves DEF Moves
  <1>3. QED
    BY <1>1, <1>2

\* What is behind the journal in memory stays behind it when memory grows.
LEMMA StaysBehind ==
    ASSUME NEW m, NEW n, n.id = m.id, JournalRows(m) \subseteq JournalRows(n),
           m.stopped => n.stopped
    PROVE  Behind(NoJournal, n) /\ Behind(m, n) /\ \A j : Behind(j, m) => Behind(j, n)
  BY DEF Behind

\* The run under way keeps what the file and the writes in flight say.
LEMMA RespectRun ==
    ASSUME RespectInv, Typed', RunStep \/ UserCancel \/ \E j \in late : LateWrite(j)
    PROVE  RespectInv'
  <1>0. Typed
    BY DEF RespectInv
  <1>1. /\ runs' = runs /\ (mem # NoJournal => mem' # NoJournal /\ mem'.id = mem.id)
        /\ (mem = NoJournal => mem' = mem)
    <2>1. CASE RunStep
      BY <2>1, RunGrows, JournalTyping
    <2>2. CASE UserCancel \/ \E j \in late : LateWrite(j)
      BY <2>2 DEF UserCancel, CancelUnjournaled, CancelPass, CancelOutsidePass, LateWrite, told
    <2>3. QED
      BY <2>1, <2>2
  <1>2. HasJournal' => /\ HasJournal /\ mem'.id = mem.id
                       /\ JournalRows(mem) \subseteq JournalRows(mem')
                       /\ mem.stopped => mem'.stopped
    <2>1. CASE RunStep
      BY <2>1, RunGrows
    <2>2. CASE UserCancel \/ \E j \in late : LateWrite(j)
      BY <2>2 DEF UserCancel, CancelUnjournaled, CancelPass, CancelOutsidePass, LateWrite, EndRun,
                  HasJournal, Active, RunPc
    <2>3. QED
      BY <2>1, <2>2
  <1>3. disk' \in late \cup {disk, mem, NoJournal} /\ late' \subseteq late \cup {mem, NoJournal}
    BY <1>0, CopiesMove
  <1>4. \A j \in late' \cup {disk', mem'} : j # NoJournal => j.id <= runs'
    BY <1>1, <1>3 DEF RespectInv
  <1>5. HasJournal' => \A j \in late' \cup {disk'} : Behind(j, mem')
    BY <1>2, <1>3, StaysBehind DEF RespectInv
  <1>6. pc' \in Scanning => ~mem'.stopped
    <2>1. CASE PassSave \/ UnwindSave
      <3>1. HasJournal /\ mem \in Journal /\ pc \in Scanning
        BY <1>0, <2>1, GivenSaved DEF PassSave, UnwindSave, Scanning
      <3>2. PICK batch \in SUBSET Rows : \E codes \in [batch -> Codes] : Save(batch, codes)
        BY <1>0, <2>1, GivenSaved
      <3>3. mem'.stopped = mem.stopped
        BY <1>0, <3>1, <3>2, SaveTyping
      <3>4. QED
        BY <3>1, <3>3 DEF RespectInv
    <2>2. CASE UserCancel \/ \E j \in late : LateWrite(j)
      BY <2>2 DEF UserCancel, CancelUnjournaled, CancelPass, CancelOutsidePass, LateWrite, EndRun,
                  Scanning, RespectInv
    <2>3. CASE RunStep /\ ~PassSave /\ ~UnwindSave
      <3>1. pc' \in Scanning => ~MainDone /\ (pc \in Scanning \/ Allowed)
        BY <2>3 DEF Scanning, RunStep, PassStep, SheetGone, BeginJournal, BeginWritten, AfterMain,
             PassWritten, MainDone, RetryDone, LoginDone, PassBreaks, UnwindWritten,
             UnwindNothing, AfterUnwind, UnwindFails, StallWritten, MarkWritten, CooldownOver,
             SkipRetry, SkipWritten, Close, CloseFails, Cleared, EndRun
      <3>2. pc' \in Scanning => ~mem.stopped
        BY <3>1 DEF RespectInv, Allowed
      <3>3. ~MainDone => mem \in Journal /\ mem' \in {mem, WithAttempt(mem), WithSkip(mem)}
        BY <1>0, <2>3, RunChanges
      <3>4. ~MainDone => mem'.stopped = mem.stopped
        <4>1. CASE mem' = mem
          BY <4>1
        <4>2. CASE mem' = WithAttempt(mem) /\ mem \in Journal
          BY <4>2 DEF WithAttempt, Journal
        <4>3. CASE mem' = WithSkip(mem) /\ mem \in Journal
          BY <4>3 DEF WithSkip, Journal
        <4>4. QED
          BY <3>3, <4>1, <4>2, <4>3
      <3>5. QED
        BY <3>1, <3>2, <3>4
    <2>4. QED
      BY <2>1, <2>2, <2>3
  <1>7. pc' \in ResumePc => late' = {}
    <2>1. CASE RunStep
      BY <2>1 DEF ResumePc, RunStep, PassStep, PassSave, SheetGone, BeginJournal, BeginWritten,
             AfterMain, PassWritten, MainDone, RetryDone, LoginDone, PassBreaks, UnwindSave,
             UnwindWritten, UnwindNothing, AfterUnwind, UnwindFails, StallWritten, MarkWritten,
             CooldownOver, SkipRetry, SkipWritten, Close, CloseFails, Cleared, EndRun
    <2>2. CASE UserCancel
      BY <2>2 DEF ResumePc, UserCancel, CancelUnjournaled, CancelPass, CancelOutsidePass, EndRun
    <2>3. CASE \E j \in late : LateWrite(j)
      BY <2>3 DEF LateWrite, RespectInv
    <2>4. QED
      BY <2>1, <2>2, <2>3
  <1>8. QED
    BY <1>4, <1>5, <1>6, <1>7 DEF RespectInv

\* A start finds no write in flight and only files of earlier runs; a resume takes what it says
\* from the file.
LEMMA RespectStart ==
    ASSUME RespectInv, Typed', FreshStart \/ Die \/ ResumeStep
    PROVE  RespectInv'
  <1>0. Typed
    BY DEF RespectInv
  <1>1. CASE FreshStart
    <2>1. runs \in Nat /\ runs + 1 \in Ids
      BY <1>0, <1>1, RunAssumption DEF FreshStart, Typed, TypeOK, Ids
    <2>2. /\ mem' \in Journal /\ mem' # NoJournal /\ mem'.id = runs + 1 /\ ~mem'.stopped
      BY <1>1, <2>1, UnscannedTyping, JournalTyping DEF FreshStart, Unscanned
    <2>3. disk' = disk /\ late' = {} /\ runs' = runs + 1 /\ pc' = "created"
      BY <1>1 DEF FreshStart, filed
    <2>4. disk # NoJournal => disk.id <= runs /\ disk.id \in Nat
      BY <1>0, JournalTyping DEF RespectInv, Typed, TypeOK, Ids
    <2>5. \A j \in late' \cup {disk', mem'} : j # NoJournal => j.id <= runs'
      BY <2>1, <2>2, <2>3, <2>4
    <2>6. Behind(disk', mem')
      BY <2>1, <2>2, <2>3, <2>4 DEF Behind
    <2>7. QED
      BY <2>2, <2>3, <2>5, <2>6 DEF RespectInv, Scanning, ResumePc
  <1>2. CASE Die
    <2>1. /\ mem' = NoJournal /\ disk' = disk /\ late' = {} /\ runs' = runs
          /\ pc' \in {"idle", "resume"}
      BY <1>2 DEF Die, told
    <2>2. QED
      BY <2>1 DEF RespectInv, HasJournal, Active, RunPc, Scanning
  <1>3. CASE ResumeLoad
    <2>1. /\ disk' = disk /\ late' = {} /\ runs' = runs
          /\ pc' \in {"idle", "giveUp", "countWrite"}
          /\ pc' = "countWrite" => /\ disk # NoJournal /\ ~disk.stopped
                                   /\ mem' = WithAttempt(disk)
          /\ pc' = "giveUp" => mem' = disk
          /\ pc' = "idle" => mem' = mem
      BY <1>3 DEF ResumeLoad, RespectInv, ResumePc, filed, told
    <2>2. disk # NoJournal => /\ disk \in Journal
                              /\ WithAttempt(disk).id = disk.id
                              /\ WithAttempt(disk).stopped = disk.stopped
                              /\ JournalRows(WithAttempt(disk)) = JournalRows(disk)
      BY <1>0 DEF Typed, TypeOK, WithAttempt, Journal, JournalRows
    <2>3. \A j \in late' \cup {disk', mem'} : j # NoJournal => j.id <= runs'
      BY <2>1, <2>2 DEF RespectInv
    <2>4. HasJournal' => Behind(disk', mem')
      BY <2>1, <2>2 DEF HasJournal, Active, RunPc, Behind
    <2>5. pc' \in Scanning => ~mem'.stopped
      BY <2>1, <2>2 DEF Scanning
    <2>6. QED
      BY <2>1, <2>3, <2>4, <2>5 DEF RespectInv
  <1>4. CASE ResumeCount \/ ResumeStart \/ ResumeRefused \/ GiveUp
    <2>1. /\ mem' = mem /\ late' = late /\ runs' = runs
          /\ disk' \in {disk, mem, NoJournal}
          /\ pc \in ResumePc \ {"resume"}
          /\ pc' \in {"prepare", "created", "giveUp", "idle"}
          /\ pc' \in Scanning => pc \in Scanning
      BY <1>4 DEF ResumeCount, ResumeStart, ResumeRefused, GiveUp, FileBecomes, filed, told,
                  ResumePc, Scanning
    <2>2. late = {} /\ HasJournal
      BY <2>1 DEF RespectInv, ResumePc, HasJournal
    <2>3. \A j \in late' \cup {disk', mem'} : j # NoJournal => j.id <= runs'
      BY <2>1 DEF RespectInv
    <2>4. Behind(disk', mem')
      BY <2>1, <2>2, StaysBehind DEF RespectInv
    <2>5. QED
      BY <2>1, <2>2, <2>3, <2>4 DEF RespectInv
  <1>5. QED
    BY <1>1, <1>2, <1>3, <1>4 DEF ResumeStep

\* Every step keeps it.
LEMMA RespectNext == RespectInv /\ [Next]_vars => RespectInv'
  <1> SUFFICES ASSUME RespectInv, [Next]_vars PROVE RespectInv'
    OBVIOUS
  <1>1. Typed /\ Typed'
    BY TypeNext DEF RespectInv
  <1>2. CASE UNCHANGED vars
    BY <1>1, <1>2 DEF vars, RespectInv, HasJournal, Active
  <1>3. CASE Next
    BY <1>1, <1>3, RespectRun, RespectStart DEF Next
  <1>4. QED
    BY <1>2, <1>3

\* A main pass is never given a row the file names, and a run the file calls stopped saves nothing.
LEMMA RespectStep ==
    ASSUME RespectInv, [Next]_vars
    PROVE  /\ \A r \in Rows :
                 Active /\ disk # NoJournal /\ disk.id = mem.id /\ disk.code[r] # "-"
                     => tally'["main"][r] \in {0, tally["main"][r]}
           /\ disk # NoJournal /\ disk.stopped
                  => saved'[disk.id] = saved[disk.id] /\ again'[disk.id] = again[disk.id]
  <1>0. Typed
    BY DEF RespectInv
  <1>1. CASE PassSave \/ UnwindSave
    <2>1. HasJournal /\ mem \in Journal /\ mem # NoJournal /\ mem.id \in Ids
      BY <1>0, <1>1, GivenSaved, JournalTyping
    <2>2. ~mem.stopped /\ Behind(disk, mem)
      BY <1>1, <2>1 DEF PassSave, UnwindSave, RespectInv, Scanning
    <2>3. PICK batch \in SUBSET Rows :
              batch \subseteq Todo /\ \E codes \in [batch -> Codes] : Save(batch, codes)
      BY <1>0, <1>1, GivenSaved
    <2> PICK codes \in [batch -> Codes] : Save(batch, codes)
      BY <2>3
    <2>4. /\ saved' = [saved EXCEPT ![mem.id] = @ \cup batch]
          /\ again' = IF pass = "main" THEN again ELSE [again EXCEPT ![mem.id] = @ \cup batch]
      BY DEF Save
    <2>5. \A r \in Rows : r \in JournalRows(mem) => tally'["main"][r] = tally["main"][r]
      <3>1. tally \in [{"main", "retry"} -> [Rows -> Nat]]
        BY <1>0 DEF Typed, TypeOK
      <3>2. CASE pass = "main"
        <4>1. batch \cap JournalRows(mem) = {}
          BY <2>3, <3>2 DEF Todo
        <4>2. tally' = [tally EXCEPT !["main"] = [r \in Rows |-> IF r \in batch THEN @[r] + 1 ELSE @[r]]]
          BY <3>2 DEF Save
        <4>3. QED
          BY <3>1, <4>1, <4>2
      <3>3. CASE pass # "main"
        <4>1. tally' = [tally EXCEPT !["retry"] = [r \in Rows |-> IF r \in batch THEN @[r] + 1 ELSE @[r]]]
          BY <3>3 DEF Save
        <4>2. QED
          BY <3>1, <4>1
      <3>4. QED
        BY <3>2, <3>3
    <2>6. disk # NoJournal /\ disk.id = mem.id
              => JournalRows(disk) \subseteq JournalRows(mem) /\ ~disk.stopped
      BY <2>2 DEF Behind
    <2>7. disk # NoJournal => disk.id \in Ids
      BY <1>0, JournalTyping DEF Typed, TypeOK
    <2>8. saved \in [Ids -> SUBSET Rows] /\ again \in [Ids -> SUBSET Rows]
      BY <1>0 DEF Typed, TypeOK
    <2>9. disk # NoJournal /\ disk.id # mem.id
              => saved'[disk.id] = saved[disk.id] /\ again'[disk.id] = again[disk.id]
      BY <2>1, <2>4, <2>7, <2>8
    <2>10. QED
      BY <2>5, <2>6, <2>9 DEF JournalRows
  <1>2. CASE ~PassSave /\ ~UnwindSave
    <2>1. UNCHANGED <<saved, again>>
      BY <1>0, <1>2, StartMoves, RunChanges, CancelMoves DEF Next, Moves, vars
    <2>2. tally' \in {tally, NoTally}
      <3>1. CASE FreshStart \/ Die \/ ResumeStep \/ UserCancel \/ \E j \in late : LateWrite(j)
        BY <3>1 DEF FreshStart, Die, ResumeStep, ResumeLoad, ResumeCount, ResumeStart,
                    ResumeRefused, GiveUp, UserCancel, CancelUnjournaled, CancelPass,
                    CancelOutsidePass, LateWrite, results
      <3>2. CASE RunStep \/ UNCHANGED vars
        BY <1>0, <1>2, <3>2, RunChanges DEF vars
      <3>3. QED
        BY <3>1, <3>2 DEF Next
    <2>3. \A r \in Rows : NoTally["main"][r] = 0
      BY DEF NoTally
    <2>4. QED
      BY <2>1, <2>2, <2>3
  <1>3. QED
    BY <1>1, <1>2

\* What the journal file says is done, or over, every later pass respects, whichever process runs
\* it and whatever write was lost, overtaken or late.
THEOREM JournalHeeded == Spec => JournalRespected
  <1>1. Init => RespectInv
    BY TypeInit DEF Init, RespectInv, Scanning, HasJournal, Active, RunPc, ResumePc
  <1>2. RespectInv /\ [Next]_vars
            => /\ [\A r \in Rows :
                      Active /\ disk # NoJournal /\ disk.id = mem.id /\ disk.code[r] # "-"
                          => tally'["main"][r] \in {0, tally["main"][r]}]_vars
               /\ [disk # NoJournal /\ disk.stopped => saved'[disk.id] = saved[disk.id]
                                                    /\ again'[disk.id] = again[disk.id]]_vars
    BY RespectStep
  <1>3. QED
    BY <1>1, <1>2, RespectNext, PTL DEF Spec, JournalRespected, NeverRescanned, StopIsFinal
=============================================================================
