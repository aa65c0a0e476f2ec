----------------------------- MODULE ScanPromise -----------------------------
(***************************************************************************)
(* What the run journal promises, without passes, threads or retries: at   *)
(* most one run at a time; one file that names rows of one run and only    *)
(* grows; a run is continued only from its file and only a bounded number  *)
(* of times; and a run that ended with its file removed is never continued.*)
(* ScanRun implements it (ScanRun!KeepsPromise).                           *)
(***************************************************************************)
EXTENDS Naturals

CONSTANTS Rows, MaxResume, MaxRuns, NoJournal

Ids == 1 .. MaxRuns

VARIABLES
    now,  \* the run under way, or 0
    last, \* the newest run
    file, \* NoJournal, or the run and the rows the journal file names
    left, \* run -> restarts it may still take
    over  \* runs that ended with their file removed

vars == <<now, last, file, left, over>>

Init ==
    /\ now = 0 /\ last = 0
    /\ file = NoJournal
    /\ left = [i \in Ids |-> MaxResume]
    /\ over = {}

Begin ==
    /\ now = 0 /\ last < MaxRuns
    /\ last' = last + 1 /\ now' = last + 1
    /\ UNCHANGED <<file, left, over>>

\* A new file replaces the file of an older run; it names no row yet.
Open(i) ==
    /\ i \in 1 .. last \ over
    /\ file # NoJournal => file.id < i
    /\ file' = [id |-> i, rows |-> {}]
    /\ UNCHANGED <<now, last, left, over>>

Record(more) ==
    /\ file # NoJournal /\ file.id \notin over
    /\ file' = [file EXCEPT !.rows = @ \cup more]
    /\ UNCHANGED <<now, last, left, over>>

Remove == file' = NoJournal /\ UNCHANGED <<now, last, left, over>>

\* The run under way, or the one a resume gives up, ends and its file goes with it.
End(i) ==
    /\ now \in {0, i}
    /\ now' = 0
    /\ file' = NoJournal
    /\ over' = over \cup {i}
    /\ UNCHANGED <<last, left>>

\* The run stops with its file in place: the process died, or nothing was left to remove it.
Leave == now # 0 /\ now' = 0 /\ UNCHANGED <<last, file, left, over>>

Restart(i) ==
    /\ now = i \/ (now = 0 /\ file # NoJournal /\ file.id = i)
    /\ i \in Ids \ over
    /\ left[i] > 0
    /\ now' = i
    /\ left' = [left EXCEPT ![i] = @ - 1]
    /\ UNCHANGED <<last, file, over>>

Next ==
    \/ Begin \/ Remove \/ Leave
    \/ \E i \in Ids : Open(i) \/ End(i) \/ Restart(i)
    \/ \E more \in SUBSET Rows : Record(more)

Spec == Init /\ [][Next]_vars
=============================================================================
