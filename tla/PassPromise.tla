---------------------------- MODULE PassPromise ----------------------------
(***************************************************************************)
(* What a pass of a scanner promises the run that started it, without      *)
(* workers, queues, routes and awaits: a row is recorded once, and told to *)
(* the run journal once, by the save that kept it; however the pass ends,  *)
(* what it recorded is kept, unless it `failed` or `sure` is false; and    *)
(* a pass that ends as completed has told every row. TikTokPass and        *)
(* ThreadsPass implement it; ScanRun relies on it.                         *)
(***************************************************************************)
CONSTANTS Rows

VARIABLES
    sure,    \* a save that is cancelled is finished first: not so a flush of a TikTok store session
    waiting, \* rows with a result that the journal has not been told of
    kept,    \* rows whose result is in the file or the database
    told,    \* rows the journal has been told of
    failed,  \* a save failed, or a cancellation left the pass without its last one
    how      \* "running", or how the pass ended: "completed", "stopped" by HTTP 429, or "broken"

vars == <<sure, waiting, kept, told, failed, how>>

Init ==
    /\ sure \in BOOLEAN
    /\ waiting = {} /\ kept = {} /\ told = {} /\ failed = FALSE
    /\ how = "running"

Record ==
    /\ \E rows \in SUBSET (Rows \ (waiting \cup told)) : waiting' = waiting \cup rows
    /\ UNCHANGED <<kept, told, failed>>

\* The journal is told of what the save has kept.
Save ==
    /\ \E rows \in SUBSET waiting : kept' = kept \cup rows
    /\ sure => waiting \subseteq kept'
    /\ told' = told \cup waiting /\ waiting' = {}
    /\ UNCHANGED failed

\* A cancellation arrives while the save is under way: the journal is told nothing.
CutSave ==
    /\ \E rows \in SUBSET waiting : kept' = kept \cup rows
    /\ UNCHANGED <<waiting, told, failed>>

FailSave == failed' = TRUE /\ UNCHANGED <<waiting, kept, told>>

Rest == UNCHANGED <<waiting, kept, told, failed>>

\* The pass goes on, or ends with what it owes.
Ending ==
    /\ how' \in {"running", "completed", "stopped", "broken"}
    /\ how' # "running" /\ sure /\ ~failed' => waiting' \subseteq kept'
    /\ how' \in {"completed", "stopped"} => waiting' = {}
    /\ how' = "completed" => told' = Rows

Next ==
    /\ how = "running" /\ Ending
    /\ Record \/ Save \/ CutSave \/ FailSave \/ Rest
    /\ UNCHANGED sure

Spec == Init /\ [][Next]_vars
=============================================================================
