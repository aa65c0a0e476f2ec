---------------------------- MODULE StoreSession ----------------------------
(***************************************************************************)
(* A scan of Riviu Data (store/postgres.py, store/rules.py): each pass     *)
(* opens a session on the rows of its month, buffers what its results      *)
(* write and flushes the buffer in transactions, while staff edit, delete  *)
(* and lock the same posts.                                                *)
(*                                                                         *)
(* The statements of a transaction are one step: an edit that falls        *)
(* between them is as if it came after. Numbers are known by the result    *)
(* that brought them and the link it was read from.                        *)
(***************************************************************************)
EXTENDS Integers, FiniteSets

CONSTANTS
    Rows,        \* posts of the month
    Links,
    MaxResults,  \* bound: results of the run
    MaxPasses,   \* bound: main and retry passes
    MaxEdits     \* bound: what staff do meanwhile

VARIABLES
    platform,
    post,     \* public.<platform>: the link, and whether the row is live
    saved,    \* bao_cao.<platform>_chi_so
    item,     \* scan_run_item of this run
    session,  \* the rows of the pass: link_seen, channel
    pending,  \* _pending
    batch,    \* the batch of the flush under way
    results, passes, edits,
    told,     \* history: the row as its results would have made it, written one at a time
    apart,    \* history: rows that staff touched, or whose result was not kept
    moved     \* history: rows whose link was edited since their numbers were written

counters == <<results, passes, edits>>
history == <<told, apart, moved>>
vars == <<platform, post, saved, item, session, pending, batch, counters, history>>

None == "none"
Null == [link |-> None, n |-> 0]
\* A column the upsert does not name.
KeepNumbers == [link |-> "keep", n |-> 0]
KeepName == -1
NoWrite == [numbers |-> KeepNumbers, status |-> None, name |-> KeepName, fresh |-> FALSE]
NotRead == [seen |-> None, name |-> 0]
Blank == [numbers |-> Null, status |-> None, name |-> 0, fresh |-> 0]

\* A channel name is known by channel_name_quality: 2 a nickname, 1 a handle, 0 neither.
Qualities == 0 .. 2

Init ==
    /\ platform \in {"tiktok", "threads"}
    /\ post \in [Rows -> {[link |-> l, live |-> TRUE] : l \in Links}]
    /\ saved \in [Rows -> {[cols |-> [Blank EXCEPT !.name = q], lock |-> lock] : q \in {0, 2}, lock \in BOOLEAN}]
    /\ item = [r \in Rows |-> None]
    /\ session = [r \in Rows |-> NotRead] /\ pending = [r \in Rows |-> NoWrite] /\ batch = pending
    /\ results = 0 /\ passes = 0 /\ edits = 0
    /\ told = [r \in Rows |-> saved[r].cols] /\ apart = {} /\ moved = {}

Buffered(w) == {r \in Rows : w[r] # NoWrite}
Empty == [r \in Rows |-> NoWrite]

-----------------------------------------------------------------------------
(* What a result writes: rules.py.                                         *)

Written(n, q, status, fresh) == [numbers |-> n, status |-> status, name |-> q, fresh |-> fresh]

\* The name a TikTok result writes: a failure keeps a usable one, and none is written that is worse
\* than the one read at open, or the same.
NameColumn(old, success, q) == IF (~success /\ old > 0) \/ old >= q THEN KeepName ELSE q

\* tiktok_update_columns: numbers are written by a success and cleared by "hidden" and by a confirmed
\* "gone"; any other failure leaves them.
TikTokWrites(r, n) ==
    {Written(num, NameColumn(session[r].name, TRUE, q), "Success", TRUE) : num \in {[link |-> session[r].seen, n |-> n], Null}, q \in 1 .. 2}
    \cup {Written(Null, NameColumn(session[r].name, FALSE, q), "hidden", FALSE) : q \in 0 .. 1}
    \cup {Written(KeepNumbers, NameColumn(session[r].name, FALSE, q), "error", FALSE) : q \in 0 .. 1}

\* threads_update_columns: what is missing is left out; views are cleared on explicit doubt only.
ThreadsWrites(r, n) ==
    {Written(num, name, "status", name # KeepName \/ num \notin {KeepNumbers, Null}) :
        num \in {[link |-> session[r].seen, n |-> n], Null, KeepNumbers}, name \in {1, KeepName}}

Writes(r, n) == IF platform = "tiktok" THEN TikTokWrites(r, n) ELSE ThreadsWrites(r, n)

\* A later write over an earlier one: its columns win.
Over(old, new) ==
    IF new = NoWrite THEN old
    ELSE [numbers |-> IF new.numbers = KeepNumbers THEN old.numbers ELSE new.numbers,
          status |-> new.status,
          name |-> IF new.name = KeepName THEN old.name ELSE new.name,
          fresh |-> old.fresh \/ new.fresh]

\* The row after a write; fresh stands for cap_nhat_lan_cuoi.
Applied(cols, w) ==
    [numbers |-> IF w.numbers = KeepNumbers THEN cols.numbers ELSE w.numbers,
     status |-> w.status,
     name |-> IF w.name = KeepName THEN cols.name ELSE w.name,
     fresh |-> IF w.fresh THEN 1 ELSE cols.fresh]

-----------------------------------------------------------------------------
(* A pass.                                                                 *)

\* open_scan: one snapshot of the live rows that are not locked. (Those of other partners
\* and those whose link is no post's are left out: nothing is written to them.)
Open ==
    /\ passes < MaxPasses /\ passes' = passes + 1
    /\ Buffered(batch) = {} /\ Buffered(pending) = {}
    /\ session' = [r \in Rows |-> IF post[r].live /\ ~saved[r].lock
                                  THEN [seen |-> post[r].link, name |-> saved[r].cols.name] ELSE NotRead]
    /\ UNCHANGED <<platform, post, saved, item, pending, batch, results, edits, history>>

\* _buffer: the columns are merged over those of an earlier result of the row.
Result(r) ==
    /\ session[r].seen # None /\ results < MaxResults /\ results' = results + 1
    /\ \E w \in Writes(r, results + 1) :
        /\ pending' = [pending EXCEPT ![r] = Over(@, w)]
        /\ session' = (IF w.name = KeepName THEN session ELSE [session EXCEPT ![r].name = w.name])
        /\ told' = [told EXCEPT ![r] = Applied(@, w)]
    /\ UNCHANGED <<platform, post, saved, item, batch, passes, edits, apart, moved>>

FlushBegin ==
    /\ Buffered(batch) = {} /\ Buffered(pending) # {}
    /\ batch' = pending /\ pending' = Empty
    /\ UNCHANGED <<platform, post, saved, item, session, counters, history>>

\* Mutant: the upsert does not ask whether the link is still the one the numbers were read from.
WritableAnyLink(r) == post[r].live /\ ~saved[r].lock

\* _upsert_sql: the post is live under the link seen at open, and not locked.
Writable(r) == post[r].live /\ post[r].link = session[r].seen /\ ~saved[r].lock

\* _apply: what can be written is, the rest is skipped, and each row is told of once per run: its first
\* status stays (ON CONFLICT DO NOTHING).
FlushCommits ==
    LET done == {r \in Buffered(batch) : Writable(r)}
        skipped == Buffered(batch) \ done IN
    /\ Buffered(batch) # {} /\ batch' = Empty
    /\ saved' = [r \in Rows |-> IF r \in done THEN [saved[r] EXCEPT !.cols = Applied(@, batch[r])] ELSE saved[r]]
    /\ item' = [r \in Rows |-> IF r \notin Buffered(batch) \/ item[r] # None THEN item[r]
                               ELSE IF r \in done THEN batch[r].status ELSE "skipped"]
    /\ apart' = apart \cup skipped /\ moved' = moved \ {r \in done : batch[r].numbers # KeepNumbers}
    /\ UNCHANGED <<platform, post, session, pending, counters, told>>

\* Mutant: a failed batch is put back over what was buffered since.
PutBackOver(old, new) == Over(new, old)

\* A failed batch goes back under what was buffered meanwhile.
PutBack(old, new) == Over(old, new)

FlushFails ==
    /\ Buffered(batch) # {} /\ batch' = Empty
    /\ pending' = [r \in Rows |-> PutBack(batch[r], pending[r])]
    /\ UNCHANGED <<platform, post, saved, item, session, counters, history>>

\* A cancellation is no Exception: the batch is gone.
FlushCancelled ==
    /\ Buffered(batch) # {} /\ batch' = Empty /\ apart' = apart \cup Buffered(batch)
    /\ UNCHANGED <<platform, post, saved, item, session, pending, counters, told, moved>>

\* The pass closes its session with results unsaved: cancelled, or its last flush failed.
Drop ==
    /\ Buffered(batch) = {} /\ Buffered(pending) # {}
    /\ apart' = apart \cup Buffered(pending) /\ pending' = Empty /\ session' = [r \in Rows |-> NotRead]
    /\ UNCHANGED <<platform, post, saved, item, batch, counters, told, moved>>

-----------------------------------------------------------------------------
(* Staff, in Riviu Data or in SQL.                                         *)

Edit(r) ==
    /\ edits < MaxEdits /\ edits' = edits + 1 /\ apart' = apart \cup {r}
    /\ \/ /\ \E l \in Links \ {post[r].link} : post' = [post EXCEPT ![r].link = l]
          /\ moved' = moved \cup {r} /\ UNCHANGED saved
       \/ post' = [post EXCEPT ![r].live = ~@] /\ UNCHANGED <<saved, moved>>
       \/ saved' = [saved EXCEPT ![r].lock = ~@] /\ UNCHANGED <<post, moved>>
       \/ saved' = [saved EXCEPT ![r].cols.name = 2] /\ UNCHANGED <<post, moved>>
    /\ UNCHANGED <<platform, item, session, pending, batch, results, passes, told>>

Flush == FlushBegin \/ FlushCommits \/ FlushFails \/ FlushCancelled
Next == Open \/ Flush \/ Drop \/ \E r \in Rows : Result(r) \/ Edit(r)

Spec == Init /\ [][Next]_vars

-----------------------------------------------------------------------------
Numbers == {Null} \cup [link : Links, n : 1 .. MaxResults]
Statuses == {None, "Success", "hidden", "error", "status"}
RowWrites == [numbers : Numbers \cup {KeepNumbers}, status : Statuses, name : Qualities \cup {KeepName}, fresh : BOOLEAN]

TypeOK ==
    /\ post \in [Rows -> [link : Links, live : BOOLEAN]]
    /\ \A r \in Rows :
        /\ saved[r].cols.numbers \in Numbers /\ saved[r].cols.status \in Statuses /\ saved[r].cols.name \in Qualities
        /\ item[r] \in Statuses \cup {"skipped"} /\ session[r].seen \in Links \cup {None}
        /\ pending[r] \in RowWrites /\ batch[r] \in RowWrites

\* The numbers of a post were read from the link it has, unless staff edited the link after they were
\* written: results of an older link are skipped however late, or after how many failed flushes,
\* they are flushed (_upsert_sql).
NumbersOfLink == \A r \in Rows : saved[r].cols.numbers.link \in {None, post[r].link} \/ r \in moved

\* With nothing left to flush, a row is what its results would have made it written one at a time
\* and in order: merging results, failed flushes and results that come in during one change nothing
\* (flush, _buffer).
SavedIsTold ==
    \A r \in Rows : pending[r] = NoWrite /\ batch[r] = NoWrite /\ r \notin apart => saved[r].cols = told[r]
=============================================================================
