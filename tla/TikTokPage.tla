----------------------------- MODULE TikTokPage -----------------------------
(***************************************************************************)
(* The check of one TikTok link, from its pages to its row: the HTTP       *)
(* attempts over the link's addresses (fetch_request.py), the attempts in  *)
(* Chromium (fetch_browser.py), how a deletion is confirmed (gone.py,      *)
(* statuses.py), which answer counts (workers.py) and what the row gets    *)
(* (runner.py, workbook_io.py). How a page is read is in TikTokParse, the  *)
(* names of channels are in TikTokNames.                                   *)
(***************************************************************************)
EXTENDS Naturals

CONSTANTS
    Modes,    \* "request", "hybrid", "browser"
    Readings, \* what the pages a link leads to are read as, by whether it carries its post's id
    Valid(_), \* numbers are plausible
    None,     \* no number, no result, no address
    Limit,    \* request_candidate_limit: addresses tried in one HTTP attempt
    Retries,  \* attempts after the first
    MaxPolls  \* METRIC_POLL_ROUNDS

Posts == {"own", "other"}
Places == Posts \cup {"page"}

VARIABLES
    mode,     \* where the link is checked
    named,    \* the link carries the id of its post; a short link does not
    expected, \* expected_media_ids: a short link's row knows the post it led to before
    browser,  \* the check is in Chromium
    phase,    \* what the check is waiting for
    attempt,
    used,     \* addresses fetched in this HTTP attempt
    again,    \* the second fetch of one address
    outcome,  \* the running outcome of this HTTP attempt
    landed,   \* where the page in Chromium is
    polls, previous, \* its reads so far, and the last valid one
    verdict,  \* the answer of the attempt that is over
    resolved, \* last_resolved_url
    gone,     \* confirmed_gone: None, TRUE or FALSE
    answers,  \* answers of the embed page in this confirmation
    cell,     \* the numbers of the row: as they were, blank, or read
    hid,      \* history: the posts whose own item said, on some page, that its stats are hidden
    streak,   \* history: post -> embed answers in a row that said it is gone
    found     \* history: an HTTP page of the attempt gave the numbers

attemptVars == <<used, again, outcome, landed, polls, previous>>
checkVars == <<browser, attempt, resolved, gone, answers>>
linkVars == <<mode, named, expected>>
vars == <<linkVars, phase, attemptVars, verdict, checkVars, cell, hid, streak, found>>

-----------------------------------------------------------------------------
(* Statuses: "suspected" is an HTTP 404 or 410, or a page that says item   *)
(* not found; "limited" an HTTP 403 or 429; "network" a transient error.   *)

ClearsNumbers(status) == status \in {"hidden", "unavailable"}

\* stronger_terminal_result: hidden stats over a suspicion, else the first.
Stronger(current, candidate) ==
    IF current = None \/ (candidate.status = "hidden" /\ current.status # "hidden")
    THEN candidate ELSE current

Answer(status, counts, place, hints) ==
    [status |-> status, counts |-> counts, place |-> place, hints |-> hints]

Fresh == [success |-> None, terminal |-> None, status |-> "unreadable", place |-> None, hints |-> FALSE]

\* note_terminal
Noted(o, status, place) ==
    IF ClearsNumbers(status) \/ status = "suspected"
    THEN Stronger(o.terminal, [status |-> status, place |-> place]) ELSE o.terminal

\* note_fetch_error
WithError(o, status) == [o EXCEPT !.status = status, !.terminal = Noted(o, status, o.place)]

\* note_page: a success with a channel name replaces one without.
WithPage(o, r) ==
    LET place == IF r.status = "mismatch" THEN o.place ELSE r.place
        read == [counts |-> r.counts, place |-> r.place, titled |-> r.titled]
    IN [success |-> IF r.status = "success" /\ (o.success = None \/ (r.titled /\ ~o.success.titled))
                    THEN read ELSE o.success,
        terminal |-> Noted(o, r.status, place),
        status |-> r.status, place |-> place, hints |-> o.hints \/ r.hints]

\* Mutant: an answer that clears the row outranks numbers read before it.
OutcomeTerminal(o) ==
    IF o.terminal # None THEN Answer(o.terminal.status, None, o.terminal.place, o.hints)
    ELSE IF o.success # None THEN Answer("success", o.success.counts, o.success.place, o.hints)
    ELSE Answer(o.status, None, o.place, o.hints)

\* _RequestScrapeOutcome.result
Outcome(o) ==
    IF o.success # None THEN Answer("success", o.success.counts, o.success.place, o.hints)
    ELSE IF o.terminal # None THEN Answer(o.terminal.status, None, o.terminal.place, o.hints)
    ELSE Answer(o.status, None, o.place, o.hints)

-----------------------------------------------------------------------------

Init ==
    /\ mode \in Modes /\ named \in BOOLEAN /\ expected \in BOOLEAN
    /\ browser = (mode = "browser") /\ phase = IF browser THEN "open" ELSE "fetch"
    /\ attempt = 0 /\ used = 0 /\ again = FALSE /\ outcome = Fresh
    /\ landed = None /\ polls = 0 /\ previous = None
    /\ verdict = Answer("other", None, None, FALSE)
    /\ resolved = None /\ gone = None /\ answers = 0
    /\ cell = [is |-> "old", counts |-> None] /\ hid = {} /\ streak = [p \in Posts |-> 0] /\ found = FALSE

\* An attempt is over: its answer is judged next.
Judge(answer) ==
    /\ phase' = "judge"
    /\ verdict' = answer
    /\ resolved' = IF answer.place # None THEN answer.place ELSE resolved
    /\ used' = 0 /\ again' = FALSE /\ outcome' = Fresh
    /\ landed' = None /\ polls' = 0 /\ previous' = None
    /\ UNCHANGED <<linkVars, browser, attempt, gone, answers, cell, streak>>

-----------------------------------------------------------------------------
(* An HTTP attempt: _scrape_link_request_impl.                             *)

\* The next address, the one a redirect showed included, or none is left.
NextAddress(o) ==
    \/ Judge(Outcome(o))
    \/ /\ used + 1 < Limit
       /\ used' = used + 1 /\ again' = FALSE /\ outcome' = o
       /\ UNCHANGED <<linkVars, phase, landed, polls, previous, verdict, checkVars, cell, streak>>

\* A page with hints that gave no final answer is fetched once more.
FetchPage ==
    /\ phase = "fetch"
    /\ \E r \in Readings[named] :
        LET o == WithPage(outcome, r) IN
        /\ hid' = IF r.hides THEN hid \cup {r.place} ELSE hid
        /\ found' = (found \/ r.status = "success")
        /\ IF r.status = "success" /\ r.titled THEN Judge(Outcome(o))
           ELSE IF r.hints /\ ~again
           THEN /\ again' = TRUE /\ outcome' = o
                /\ UNCHANGED <<linkVars, phase, used, landed, polls, previous, verdict, checkVars, cell, streak>>
           ELSE NextAddress(o)

FetchFails ==
    /\ phase = "fetch"
    /\ \E status \in {"suspected", "limited", "network", "other"} : NextAddress(WithError(outcome, status))
    /\ UNCHANGED <<hid, found>>

-----------------------------------------------------------------------------
(* An attempt in Chromium: scrape_single_link.                             *)

\* An error leaves the address of the link itself.
OwnAddress == IF named THEN "own" ELSE "page"

OpenFails ==
    /\ phase \in {"open", "poll"}
    /\ Judge(Answer("other", None, OwnAddress, FALSE))
    /\ UNCHANGED <<hid, found>>

Open ==
    /\ phase = "open"
    /\ \E place \in Places :
        IF named /\ place # "own" THEN Judge(Answer("mismatch", None, OwnAddress, FALSE))
        ELSE IF place = "page" THEN Judge(Answer("unreadable", None, place, FALSE))
        ELSE /\ landed' = place /\ phase' = "poll"
             /\ UNCHANGED <<linkVars, used, again, outcome, polls, previous, verdict, checkVars, cell, streak>>
    /\ UNCHANGED <<hid, found>>

\* Two reads that agree; at the end of the polls the last valid one does.
Poll ==
    /\ phase = "poll"
    /\ \E r \in {x \in Readings[named] : x.place = landed} :
        LET last == IF r.counts # None THEN r.counts ELSE previous
            Read(counts) == Judge(Answer("success", counts, landed, FALSE))
        IN /\ hid' = IF r.hides THEN hid \cup {landed} ELSE hid
           /\ IF r.counts # None /\ r.counts = previous THEN Read(r.counts)
              ELSE IF r.counts = None /\ r.missing THEN Judge(Answer("suspected", None, landed, FALSE))
              ELSE IF polls + 1 < MaxPolls
              THEN /\ polls' = polls + 1 /\ previous' = last
                   /\ UNCHANGED <<linkVars, phase, used, again, outcome, landed, verdict, checkVars, cell, streak>>
              ELSE IF last # None THEN Read(last)
              ELSE Judge(Answer(r.status, None, landed, FALSE))
    /\ UNCHANGED found

-----------------------------------------------------------------------------
(* After an attempt: the loops of scrape_link_with_retries_request and     *)
(* scrape_with_retries, and the worker that runs them.                     *)

Final(status) == status = "success" \/ ClearsNumbers(status)

Start == IF browser THEN "open" ELSE "fetch"

\* A hybrid run checks in Chromium what HTTP did not settle.
Deliver(status) ==
    IF mode = "hybrid" /\ ~browser /\ ~Final(status)
    THEN /\ browser' = TRUE /\ phase' = "open"
         /\ attempt' = 0 /\ resolved' = None /\ gone' = None /\ answers' = 0
    ELSE phase' = "record" /\ UNCHANGED <<browser, attempt, resolved, gone, answers>>

Retry(asked) ==
    IF attempt < Retries
    THEN /\ attempt' = attempt + 1 /\ phase' = Start
         /\ gone' = asked /\ answers' = 0
         /\ UNCHANGED <<browser, resolved>>
    ELSE Deliver(verdict.status)

Transient == {"suspected", "limited", "network", "unreadable"}

\* A suspicion is confirmed unless the embed page has said the post is live. HTTP gives up on any
\* other error of a page without hints; Chromium tries again whatever the error.
JudgeAnswer ==
    /\ phase = "judge"
    /\ IF verdict.status = "suspected" /\ gone = None
       THEN phase' = "confirm" /\ UNCHANGED checkVars
       ELSE IF ~Final(verdict.status) /\ (browser \/ verdict.status \in Transient \/ verdict.hints)
       THEN Retry(gone)
       ELSE Deliver(verdict.status)
    /\ UNCHANGED <<linkVars, attemptVars, verdict, cell, hid, streak, found>>

\* The embed page is that of the post the link names, or of the one it last led to.
Target == IF named THEN "own" ELSE resolved

\* Mutant: one answer is enough.
ConfirmOnce ==
    /\ phase = "confirm" /\ Target \in Posts
    /\ \E answer \in {TRUE, FALSE, None} :
        /\ streak' = [streak EXCEPT ![Target] = IF answer = TRUE THEN IF @ = 2 THEN 2 ELSE @ + 1 ELSE 0]
        /\ IF answer = TRUE
           THEN verdict' = [verdict EXCEPT !.status = "unavailable"] /\ Deliver("unavailable")
           ELSE Retry(answer) /\ UNCHANGED verdict
    /\ UNCHANGED <<linkVars, attemptVars, cell, hid, found>>

\* confirm_tiktok_post_gone, one embed_answer at a time: gone (TRUE), live (FALSE), or no answer.
Confirm ==
    /\ phase = "confirm" /\ Target \in Posts
    /\ \E answer \in {TRUE, FALSE, None} :
        /\ streak' = [streak EXCEPT ![Target] = IF answer = TRUE THEN IF @ = 2 THEN 2 ELSE @ + 1 ELSE 0]
        /\ IF answer = TRUE /\ answers = 0
           THEN answers' = 1 /\ UNCHANGED <<phase, verdict, browser, attempt, resolved, gone>>
           ELSE IF answer = TRUE
           THEN verdict' = [verdict EXCEPT !.status = "unavailable"] /\ Deliver("unavailable")
           ELSE Retry(answer) /\ UNCHANGED verdict
    /\ UNCHANGED <<linkVars, attemptVars, cell, hid, found>>

\* A short link that has led to no post cannot be asked about.
ConfirmNothing ==
    /\ phase = "confirm" /\ Target \notin Posts
    /\ Retry(None)
    /\ UNCHANGED <<linkVars, attemptVars, verdict, cell, hid, streak, found>>

\* Chromium does not open for the fallback: the answer of HTTP stands.
NoBrowser ==
    /\ phase = "open" /\ mode = "hybrid" /\ attempt = 0
    /\ phase' = "record"
    /\ UNCHANGED <<linkVars, attemptVars, verdict, checkVars, cell, hid, streak, found>>

\* guard_result_media_identity
OtherPost == verdict.status = "success" /\ expected /\ verdict.place # "own"

\* record_result and write_result: numbers read are written, those of a hidden or deleted post
\* cleared, all others kept.
Record ==
    /\ phase = "record"
    /\ phase' = "done"
    /\ cell' = IF OtherPost THEN cell
               ELSE IF verdict.status = "success" THEN [is |-> "read", counts |-> verdict.counts]
               ELSE IF ClearsNumbers(verdict.status) THEN [is |-> "blank", counts |-> None] ELSE cell
    /\ UNCHANGED <<linkVars, attemptVars, verdict, checkVars, hid, streak, found>>

Ended == phase = "done" /\ UNCHANGED vars

Next ==
    \/ FetchPage \/ FetchFails \/ OpenFails \/ Open \/ Poll
    \/ JudgeAnswer \/ Confirm \/ ConfirmNothing \/ NoBrowser \/ Record \/ Ended

Spec == Init /\ [][Next]_vars

-----------------------------------------------------------------------------

\* The post the row is of: the one its link names or led to before; of a link of which neither is
\* known, whichever it leads to.
OfThisRow(post) == named \/ expected => post = "own"

\* On some page its own item said that its stats are hidden, or the embed page said twice in a row
\* that it is gone.
Proved(post) == post \in hid \/ streak[post] = 2

TypeOK ==
    /\ phase \in {"fetch", "open", "poll", "judge", "confirm", "record", "done"}
    /\ attempt \in 0 .. Retries /\ used \in 0 .. Limit /\ polls \in 0 .. MaxPolls
    /\ landed \in Places \cup {None} /\ resolved \in Places \cup {None}
    /\ gone \in BOOLEAN \cup {None} /\ answers \in 0 .. 1
    /\ hid \subseteq Posts /\ streak \in [Posts -> 0 .. 2]

\* "guard_result_media_identity rejects changed short url target", a test says: a row's numbers are
\* cleared only for what was proved of its own post. It is refuted: the guard looks at answers with
\* numbers only, not at one that says the other post hides them or is gone.
ClearedForItsPost == cell.is = "blank" => \E p \in Posts : OfThisRow(p) /\ Proved(p)

\* "Only \"item not found\" means the post is gone", "hidden stats, or a deletion confirmed by two
\* independent signals": the numbers of a row are cleared only for what was proved of one post, and
\* that is the post the link names; a short link may have led to another than the one before.
ClearedOnProof == cell.is = "blank" => \E p \in Posts : (named => p = "own") /\ Proved(p)

\* "Read metrics only from the embedded item whose id is media_id": the numbers a row gets are
\* plausible, and of the post its link names or led to the time before.
NumbersOfItsPost ==
    cell.is = "read" =>
        /\ Valid(cell.counts.data)
        /\ (named \/ expected) => cell.counts.of = "own"

\* Numbers an HTTP attempt has read are not lost to what its other addresses, or the second fetch
\* of one, answer.
ReadIsWritten ==
    phase = "done" /\ found => OtherPost \/ cell.is = "read"

RowOfItsPost == TypeOK /\ ClearedOnProof /\ NumbersOfItsPost /\ ReadIsWritten
=============================================================================
